---- MODULE Spec2Model ----
(***************************************************************************)
(* Secular-equilibrium calculator (secular_equilibrium/calculator.py).     *)
(*                                                                         *)
(* The model covers the decay-type normaliser, the validation done by the  *)
(* constructor, the depth-bounded path enumerator, the branching           *)
(* aggregator with its two caches, and calculate().                        *)
(*                                                                         *)
(* Numbers.  The program computes with Python floats.  The model computes  *)
(* with exact decimal-scaled rationals  (n / d) * 10^x  so that values as  *)
(* small as the 1e-15 threshold are representable in TLC's integers;       *)
(* float rounding is not modelled.  +infinity is the value with d = 0.     *)
(*                                                                         *)
(* Strings.  Identifiers of nuclides are TLA+ strings.  Decay-type tokens  *)
(* and decay-mode labels are sequences of one-character strings, so that   *)
(* strip(), lower() and the substring test are computed, not assumed.      *)
(***************************************************************************)
EXTENDS Integers, Sequences, FiniteSets, TLC

(***************************************************************************)
(* Bounds of the model.                                                    *)
(***************************************************************************)
\* Longest list of parent nuclides given to the constructor.
MaxParents == 2
\* Most calls of calculate() on one instance.
MaxCalls == 2
\* Longest decay table of the generated decay networks.
MaxBranches == 2
\* Most calls of dfs the model runs in one search.
MaxSearchSteps == 24

(***************************************************************************)
(* Exact arithmetic standing for the float arithmetic of the program.      *)
(***************************************************************************)
Abs(i) == IF i < 0 THEN -i ELSE i

Min(i, j) == IF i <= j THEN i ELSE j

RECURSIVE GCD(_, _)
GCD(i, j) == IF j = 0 THEN i ELSE GCD(j, i % j)

RECURSIVE Pow10(_)
Pow10(k) == IF k <= 0 THEN 1 ELSE 10 * Pow10(k - 1)

\* 0.0
Zero == [n |-> 0, d |-> 1, x |-> 0]

\* 1.0
One == [n |-> 1, d |-> 1, x |-> 0]

\* float('inf')
Inf == [n |-> 1, d |-> 0, x |-> 0]

IsInf(a) == a.d = 0

\* The unique representation of (n / d) * 10^x, d > 0: d coprime to 10,
\* n and d coprime, n not a multiple of 10.
RECURSIVE Norm(_, _, _)
Norm(n, d, x) ==
    IF n = 0 THEN Zero
    ELSE IF n % 10 = 0 THEN Norm(n \div 10, d, x + 1)
    ELSE IF d % 2 = 0 THEN Norm(n * 5, d \div 2, x - 1)
    ELSE IF d % 5 = 0 THEN Norm(n * 2, d \div 5, x - 1)
    ELSE LET g == GCD(Abs(n), d)
         IN  [n |-> n \div g, d |-> d \div g, x |-> x]

\* The float literal  m * 10^x .
Dec(m, x) == Norm(m, 1, x)

\* a * b
RMul(a, b) == Norm(a.n * b.n, a.d * b.d, a.x + b.x)

\* a + b
RAdd(a, b) ==
    LET m == Min(a.x, b.x)
    IN  IF a.n = 0 THEN b
        ELSE IF b.n = 0 THEN a
        ELSE
        Norm(a.n * b.d * Pow10(a.x - m) + b.n * a.d * Pow10(b.x - m),
             a.d * b.d, m)

\* a / b for finite a and finite nonzero b; inf / b for positive b.
RDiv(a, b) ==
    IF IsInf(a) THEN Inf
    ELSE IF b.n < 0 THEN Norm(-(a.n * b.d), a.d * (-b.n), a.x - b.x)
    ELSE Norm(a.n * b.d, a.d * b.n, a.x - b.x)

\* abs(a)
RAbs(a) == [a EXCEPT !.n = Abs(a.n)]

\* i * 10^k < j for 0 <= k <= 9, computed without forming the product.
LessScaled(i, k, j) ==
    IF i >= 0
    THEN j > 0 /\ i <= (j - 1) \div Pow10(k)
    ELSE j >= 0 \/ (-i) > (-j) \div Pow10(k)

\* a < b for finite a and b.  Exponents more than 9 apart are decided by
\* the signs: the integers of the model are below 10^10.
RLess(a, b) ==
    LET k == a.x - b.x
        L == a.n * b.d
        R == b.n * a.d
    IN  IF k >= 0
        THEN IF k > 9 THEN L < 0 \/ (L = 0 /\ R > 0)
             ELSE LessScaled(L, k, R)
        ELSE IF -k > 9 THEN R > 0 \/ (R = 0 /\ L < 0)
             ELSE ~LessScaled(R, -k, L + 1)

(***************************************************************************)
(* Strings as sequences of characters.                                     *)
(***************************************************************************)
\* Python's None.
None == <<"None">>

\* str.lower() of one character, over the characters the model uses.
LowerChar(c) ==
    CASE c = "A" -> "a"
      [] c = "B" -> "b"
      [] c = "C" -> "c"
      [] c = "D" -> "d"
      [] c = "E" -> "e"
      [] c = "F" -> "f"
      [] c = "G" -> "g"
      [] c = "H" -> "h"
      [] c = "I" -> "i"
      [] c = "J" -> "j"
      [] c = "K" -> "k"
      [] c = "L" -> "l"
      [] c = "M" -> "m"
      [] c = "N" -> "n"
      [] c = "O" -> "o"
      [] c = "P" -> "p"
      [] c = "Q" -> "q"
      [] c = "R" -> "r"
      [] c = "S" -> "s"
      [] c = "T" -> "t"
      [] c = "U" -> "u"
      [] c = "V" -> "v"
      [] c = "W" -> "w"
      [] c = "X" -> "x"
      [] c = "Y" -> "y"
      [] c = "Z" -> "z"
      [] OTHER -> c

\* Lower leaving every character as it is.
LowerKeepsCase(s) == s

\* str.lower()
Lower(s) == [i \in 1..Len(s) |-> LowerChar(s[i])]

IsSpace(c) == c \in {" ", "\t", "\n"}

\* str.strip()
RECURSIVE Strip(_)
Strip(s) ==
    IF s = <<>> THEN s
    ELSE IF IsSpace(s[1]) THEN Strip(Tail(s))
    ELSE IF IsSpace(s[Len(s)]) THEN Strip(SubSeq(s, 1, Len(s) - 1))
    ELSE s

\* Python's  sub in s  for strings.
Contains(s, sub) ==
    \E i \in 0..(Len(s) - Len(sub)) : SubSeq(s, i + 1, i + Len(sub)) = sub

ALPHA == <<"α">>
BETA_MINUS == <<"β", "-">>
BETA_PLUS == <<"β", "+">>
EC == <<"E", "C">>

VALID_DECAY_TYPES ==
    {ALPHA, BETA_MINUS, BETA_PLUS, EC, <<"S", "F">>, <<"I", "T">>,
     <<"p">>, <<"n">>, <<"d">>, <<"t">>}

\* decay_type_map.get(key, default)
DecayTypeMap(key, default) ==
    CASE key = <<"a">> -> ALPHA
      [] key = <<"a", "l", "p", "h", "a">> -> ALPHA
      [] key = <<"b">> -> BETA_MINUS
      [] key = <<"b", "-">> -> BETA_MINUS
      [] key = <<"b", "e", "t", "a">> -> BETA_MINUS
      [] key = <<"b", "e", "t", "a", "-">> -> BETA_MINUS
      [] key = <<"b", "+">> -> BETA_PLUS
      [] key = <<"b", "e", "t", "a", "+">> -> BETA_PLUS
      [] key = <<"e">> -> EC
      [] key = <<"e", "c">> -> EC
      [] OTHER -> default

\* NormalizeDecayType without the table of shorthands.
NormalizeKeepsShorthand(decay_type) ==
    IF decay_type = None THEN None ELSE Strip(decay_type)

\* SecularEquilibriumCalculator._normalize_decay_type
NormalizeDecayType(decay_type) ==
    IF decay_type = None THEN None
    ELSE LET stripped == Strip(decay_type)
         IN  IF stripped \in VALID_DECAY_TYPES THEN stripped
             ELSE DecayTypeMap(Lower(stripped), stripped)

(***************************************************************************)
(* The nuclide data provider (radioactivedecay): for every identifier,     *)
(* whether rd.Nuclide(identifier) succeeds, and for a nuclide its          *)
(* half-life in seconds, its atomic mass, and its decay table: the         *)
(* parallel lists decay_modes(), branching_fractions(), progeny().         *)
(***************************************************************************)
\* Identifiers: five nuclides, a radiation-only progeny token, a bad name.
Ids == {"A", "B", "C", "D", "E", "SF", "Invalid-999"}

Step(mode, fraction, child) ==
    [mode |-> mode, fraction |-> fraction, child |-> child]

NoNuclide == [valid |-> FALSE, half_life |-> Zero, atomic_mass |-> Zero,
              table |-> <<>>]

Nuclide(half_life, atomic_mass, table) ==
    [valid |-> TRUE, half_life |-> half_life, atomic_mass |-> atomic_mass,
     table |-> table]

\* Four routes from A to D (A B D, A B C D by two decay modes of B, A C D),
\* a radiation-only progeny token at C; E stable.
DiamondNet ==
    [id \in Ids |->
       CASE id = "A" -> Nuclide(Dec(36, 5), Dec(238, 0),
                          << Step(BETA_MINUS, Dec(75, -2), "B"),
                             Step(ALPHA, Dec(25, -2), "C") >>)
         [] id = "B" -> Nuclide(Dec(36, 2), Dec(234, 0),
                          << Step(ALPHA, Dec(5, -1), "D"),
                             Step(BETA_MINUS, Dec(25, -2), "C"),
                             Step(EC, Dec(25, -2), "C") >>)
         [] id = "C" -> Nuclide(Dec(6, 1), Dec(230, 0),
                          << Step(<<"S", "F">>, Dec(5, -1), "SF"),
                             Step(BETA_MINUS, Dec(5, -1), "D") >>)
         [] id = "D" -> Nuclide(Dec(12, 2), Dec(226, 0),
                          << Step(ALPHA, Dec(75, -2), "E"),
                             Step(<<"β", "-", "α">>, Dec(25, -2), "E") >>)
         [] id = "E" -> Nuclide(Inf, Dec(206, 0), <<>>)
         [] OTHER -> NoNuclide]

\* A network with cycles: A -> B -> A, B -> C -> B, D -> A.
CycleNet ==
    [id \in Ids |->
       CASE id = "A" -> Nuclide(Dec(36, 5), Dec(238, 0),
                          << Step(ALPHA, Dec(5, -1), "B"),
                             Step(BETA_MINUS, Dec(5, -1), "C") >>)
         [] id = "B" -> Nuclide(Dec(36, 2), Dec(234, 0),
                          << Step(ALPHA, Dec(5, -1), "A"),
                             Step(BETA_MINUS, Dec(5, -1), "C") >>)
         [] id = "C" -> Nuclide(Dec(6, 1), Dec(230, 0),
                          << Step(ALPHA, Dec(5, -1), "B"),
                             Step(BETA_MINUS, Dec(5, -1), "D") >>)
         [] id = "D" -> Nuclide(Dec(12, 2), Dec(226, 0),
                          << Step(BETA_MINUS, One, "A") >>)
         [] id = "E" -> Nuclide(Inf, Dec(206, 0), <<>>)
         [] OTHER -> NoNuclide]

\* Branching fractions around the 1e-15 threshold: A reaches D with 1e-16,
\* C reaches D with 1e-15 + 5e-17.  C has an infinite half-life and a decay
\* table all the same.
TinyNet ==
    [id \in Ids |->
       CASE id = "A" -> Nuclide(Dec(36, 5), Dec(238, 0),
                          << Step(ALPHA, Dec(1, -8), "B") >>)
         [] id = "B" -> Nuclide(Dec(36, 2), Dec(234, 0),
                          << Step(ALPHA, Dec(1, -8), "D") >>)
         [] id = "C" -> Nuclide(Inf, Dec(230, 0),
                          << Step(BETA_MINUS, Dec(1, -15), "D"),
                             Step(ALPHA, Dec(5, -1), "A") >>)
         [] id = "D" -> Nuclide(Dec(12, 2), Dec(226, 0),
                          << Step(BETA_MINUS, One, "E") >>)
         [] id = "E" -> Nuclide(Inf, Dec(206, 0), <<>>)
         [] OTHER -> NoNuclide]

Networks == {DiamondNet, CycleNet, TinyNet}

\* rd.Nuclide(name) succeeds.
IsNuclideName(provider, name) == provider[name].valid

(***************************************************************************)
(* The path enumerator.                                                    *)
(***************************************************************************)
MAX_DEPTH == 30

Path(nodes, modes, step_fractions, cumulative_ratio) ==
    [nodes |-> nodes, decay_modes |-> modes,
     step_branching_fractions |-> step_fractions,
     chain_branching_ratio |-> cumulative_ratio]

\* visited | {child}: the visited set handed to the recursive call.
Extend(visited, child) == visited \cup {child}

\* Cumulate adding the fraction where the program multiplies.
CumulateAdds(cumulative_ratio, fraction) == RAdd(cumulative_ratio, fraction)

\* Cumulate with the ratio so far forgotten.
CumulateForgetsRatio(cumulative_ratio, fraction) == fraction

\* cumulative_ratio * fraction: the ratio handed to the recursive call.
Cumulate(cumulative_ratio, fraction) == RMul(cumulative_ratio, fraction)

\* The two tests that make dfs skip a decay-table entry.
SkipChild(provider, visited, child) ==
    \/ ~IsNuclideName(provider, child)
    \/ child \in visited

\* A call of dfs that knows where it is and nothing of how it got there:
\* no visited set, no depth.
CallForgetsHistory(current, visited, nodes, modes, step_fractions, cumulative_ratio, depth) ==
    [pending |-> TRUE, current |-> current, visited |-> {},
     nodes |-> <<current>>, decay_modes |-> <<>>,
     step_branching_fractions |-> <<>>,
     chain_branching_ratio |-> One, depth |-> 0]

\* A call of dfs(...) inside _enumerate_chain_paths that has not run yet
\* (pending), or the path a call appended to paths.
Call(current, visited, nodes, modes, step_fractions, cumulative_ratio, depth) ==
    [pending |-> TRUE, current |-> current, visited |-> visited,
     nodes |-> nodes, decay_modes |-> modes,
     step_branching_fractions |-> step_fractions,
     chain_branching_ratio |-> cumulative_ratio, depth |-> depth]

\* ChildCalls leaving the loop at the first entry it skips.
RECURSIVE ChildCallsUntilSkipped(_, _, _)
ChildCallsUntilSkipped(provider, call, i) ==
    IF i > Len(provider[call.current].table) THEN <<>>
    ELSE LET s == provider[call.current].table[i]
         IN  IF SkipChild(provider, call.visited, s.child) THEN <<>>
             ELSE << Call(s.child, Extend(call.visited, s.child),
                          Append(call.nodes, s.child),
                          Append(call.decay_modes, s.mode),
                          Append(call.step_branching_fractions, s.fraction),
                          Cumulate(call.chain_branching_ratio, s.fraction),
                          call.depth + 1) >>
                  \o ChildCallsUntilSkipped(provider, call, i + 1)

\* The recursive calls the loop of dfs makes, in order, from entry i of the
\* decay table of call.current on.
RECURSIVE ChildCalls(_, _, _)
ChildCalls(provider, call, i) ==
    IF i > Len(provider[call.current].table) THEN <<>>
    ELSE LET s == provider[call.current].table[i]
             rest == ChildCalls(provider, call, i + 1)
         IN  IF SkipChild(provider, call.visited, s.child) THEN rest
             ELSE << Call(s.child, Extend(call.visited, s.child),
                          Append(call.nodes, s.child),
                          Append(call.decay_modes, s.mode),
                          Append(call.step_branching_fractions, s.fraction),
                          Cumulate(call.chain_branching_ratio, s.fraction),
                          call.depth + 1) >> \o rest

\* TooDeep abandoning the branch at the bound already.
TooDeepAtBound(depth) == depth >= MAX_DEPTH

\* if depth > self.MAX_DEPTH: return
TooDeep(depth) == depth > MAX_DEPTH

\* DfsBody going on from the progeny: the path is appended and the decay
\* table of the progeny is followed all the same.
DfsBodyPastTarget(provider, progeny, call) ==
    IF TooDeep(call.depth) THEN <<>>
    ELSE (IF call.current = progeny
          THEN << [call EXCEPT !.pending = FALSE] >> ELSE <<>>)
         \o (IF ~IsNuclideName(provider, call.current) THEN <<>>
             ELSE ChildCalls(provider, call, 1))

\* The body of dfs for one call: nothing beyond the depth bound, the path
\* appended at the progeny, nothing at a name that is no nuclide, and the
\* recursive calls otherwise.
DfsBody(provider, progeny, call) ==
    IF TooDeep(call.depth) THEN <<>>
    ELSE IF call.current = progeny THEN << [call EXCEPT !.pending = FALSE] >>
    ELSE IF ~IsNuclideName(provider, call.current) THEN <<>>
    ELSE ChildCalls(provider, call, 1)

\* Every pending call of the list replaced by what its body does.  The
\* list is in the order of the depth-first search: a call's paths and
\* recursive calls take the call's place.
RECURSIVE RunPending(_, _, _)
RunPending(provider, progeny, calls) ==
    IF calls = <<>> THEN <<>>
    ELSE (IF Head(calls).pending
          THEN DfsBody(provider, progeny, Head(calls))
          ELSE << Head(calls) >>)
         \o RunPending(provider, progeny, Tail(calls))

\* dfs(...) run to the end: the calls are run level by level until none
\* is pending; what is left are the appended paths, in the order dfs
\* appends them.
RECURSIVE Dfs(_, _, _)
Dfs(provider, progeny, calls) ==
    IF \A i \in DOMAIN calls : ~calls[i].pending
    THEN [i \in DOMAIN calls |->
             Path(calls[i].nodes, calls[i].decay_modes,
                  calls[i].step_branching_fractions,
                  calls[i].chain_branching_ratio)]
    ELSE Dfs(provider, progeny, RunPending(provider, progeny, calls))

\* _enumerate_chain_paths with the parent left out of the visited set.
EnumerateWithParentUnvisited(provider, parent, progeny) ==
    IF parent = progeny
    THEN << Path(<<parent>>, <<>>, <<>>, One) >>
    ELSE Dfs(provider, progeny,
             << Call(parent, {}, <<parent>>, <<>>, <<>>, One, 0) >>)

\* SecularEquilibriumCalculator._enumerate_chain_paths
EnumerateChainPaths(provider, parent, progeny) ==
    IF parent = progeny
    THEN << Path(<<parent>>, <<>>, <<>>, One) >>
    ELSE Dfs(provider, progeny,
             << Call(parent, {parent}, <<parent>>, <<>>, <<>>, One, 0) >>)

(***************************************************************************)
(* The branching aggregator.  A Python dict is a function on its keys.     *)
(***************************************************************************)
EmptyDict == [k \in {} |-> k]

Put(dict, key, value) ==
    [k \in (DOMAIN dict) \cup {key} |-> IF k = key THEN value ELSE dict[k]]

\* A ValueError: the format of its message and the values formatted in.
ValueError(kind, about) == [kind |-> kind, about |-> about]

\* No exception.
NoError == ValueError("none", <<>>)

\* The ValueErrors raised by _get_branching_info.
StableError(progeny) ==
    ValueError("is a stable nuclide and cannot establish secular equilibrium",
               <<progeny>>)

NotInChainError(progeny, parent) ==
    ValueError("is not in decay chain", <<progeny, parent>>)

\* MatchingFraction counting only the decay modes whose label is decay_type.
RECURSIVE MatchingFractionOfEqualLabels(_, _, _)
MatchingFractionOfEqualLabels(table, decay_type, i) ==
    IF i > Len(table) THEN Zero
    ELSE LET rest == MatchingFractionOfEqualLabels(table, decay_type, i + 1)
         IN  IF table[i].mode = decay_type
             THEN RAdd(table[i].fraction, rest)
             ELSE rest

\* The sum of the fractions of the decay modes whose label contains
\* decay_type (the loop of _get_decay_fraction_for_nuclide), from entry i.
RECURSIVE MatchingFraction(_, _, _)
MatchingFraction(table, decay_type, i) ==
    IF i > Len(table) THEN Zero
    ELSE LET rest == MatchingFraction(table, decay_type, i + 1)
         IN  IF Contains(table[i].mode, decay_type)
             THEN RAdd(table[i].fraction, rest)
             ELSE rest

\* SecularEquilibriumCalculator._get_decay_fraction_for_nuclide: the value
\* returned and the decay-fraction cache afterwards.
GetDecayFractionForNuclide(provider, fcache, dtype, nuclide) ==
    IF dtype = None THEN [value |-> One, fcache |-> fcache]
    ELSE LET cache_key == <<nuclide, dtype>>
         IN  IF cache_key \in DOMAIN fcache
             THEN [value |-> fcache[cache_key], fcache |-> fcache]
             ELSE LET matching_fraction ==
                          MatchingFraction(provider[nuclide].table, dtype, 1)
                  IN  [value |-> matching_fraction,
                       fcache |-> Put(fcache, cache_key, matching_fraction)]

\* One entry of path_details.
Details(path, decay_type_fraction) ==
    [nodes |-> path.nodes,
     decay_modes |-> path.decay_modes,
     step_branching_fractions |-> path.step_branching_fractions,
     chain_branching_ratio |-> path.chain_branching_ratio,
     decay_type_fraction_at_measured |-> decay_type_fraction,
     path_branching_ratio |->
         RMul(path.chain_branching_ratio, decay_type_fraction)]

\* TotalBranchingRatio adding up the chain ratios, not the contributions.
RECURSIVE TotalOfChainRatios(_, _, _)
TotalOfChainRatios(chain_paths, decay_type_fraction, i) ==
    IF i = 0 THEN Zero
    ELSE RAdd(TotalOfChainRatios(chain_paths, decay_type_fraction, i - 1),
              chain_paths[i].chain_branching_ratio)

\* total_branching_ratio after the loop over chain_paths[1..i].
RECURSIVE TotalBranchingRatio(_, _, _)
TotalBranchingRatio(chain_paths, decay_type_fraction, i) ==
    IF i = 0 THEN Zero
    ELSE RAdd(TotalBranchingRatio(chain_paths, decay_type_fraction, i - 1),
              Details(chain_paths[i], decay_type_fraction).path_branching_ratio)

\* list.sort(key = path_branching_ratio, reverse = True): a stable sort,
\* equal keys keep their order.  InsertDescending puts e behind every
\* element whose key is not smaller.
RECURSIVE InsertDescending(_, _)
InsertDescending(sorted, e) ==
    IF sorted = <<>> THEN <<e>>
    ELSE IF RLess(Head(sorted).path_branching_ratio, e.path_branching_ratio)
    THEN <<e>> \o sorted
    ELSE <<Head(sorted)>> \o InsertDescending(Tail(sorted), e)

\* SortDescending leaving the entries in the order of the enumeration.
SortKeepsOrder(details, i) == SubSeq(details, 1, i)

RECURSIVE SortDescending(_, _)
SortDescending(details, i) ==
    IF i = 0 THEN <<>>
    ELSE InsertDescending(SortDescending(details, i - 1), details[i])

\* EPSILON at 0: no total is below it.
EpsilonZero == Zero

\* A threshold a hundred times smaller than EPSILON.
EpsilonBelowThreshold == Dec(1, -17)

\* 1e-15
EPSILON == Dec(1, -15)

\* DecayTypeFraction without the exception for parent = progeny.
DecayTypeFractionAlsoForSelf(provider, fcache, dtype, parent, progeny) ==
    IF dtype # None
    THEN GetDecayFractionForNuclide(provider, fcache, dtype, progeny)
    ELSE [value |-> One, fcache |-> fcache]

\* The decay-type fraction _get_branching_info applies.
DecayTypeFraction(provider, fcache, dtype, parent, progeny) ==
    IF dtype # None /\ parent # progeny
    THEN GetDecayFractionForNuclide(provider, fcache, dtype, progeny)
    ELSE [value |-> One, fcache |-> fcache]

\* CacheKey without the parent.
CacheKeyWithoutParent(parent, progeny, dtype) == <<progeny, progeny, dtype>>

\* ProgenyIsStable never true: the test left out.
ProgenyStabilityIgnored(provider, progeny) == FALSE

\* progeny_halflife == float('inf')
ProgenyIsStable(provider, progeny) == IsInf(provider[progeny].half_life)

\* The key of the branching cache.
CacheKey(parent, progeny, dtype) == <<parent, progeny, dtype>>

\* CacheHit never true: the cache is not looked at.
CacheNeverHit(bcache, cache_key) == FALSE

\* cache_key in self._branching_cache
CacheHit(bcache, cache_key) == cache_key \in DOMAIN bcache

\* SecularEquilibriumCalculator._get_branching_info: whether it raises, the
\* message, the info returned, both caches afterwards, whether it called
\* _enumerate_chain_paths, and what that returned.
GetBranchingInfo(provider, bcache, fcache, dtype, parent, progeny) ==
    LET cache_key == CacheKey(parent, progeny, dtype)
        raise(message) == [raised |-> TRUE, error |-> message,
                           bcache |-> bcache, fcache |-> fcache,
                           enumerated |-> FALSE, chain_paths |-> <<>>]
    IN  IF CacheHit(bcache, cache_key)
        THEN [raised |-> FALSE, info |-> bcache[cache_key],
              bcache |-> bcache, fcache |-> fcache,
              enumerated |-> FALSE, chain_paths |-> <<>>]
        ELSE IF ~IsNuclideName(provider, progeny)
        THEN raise(ValueError("Invalid progeny nuclide name", <<progeny>>))
        ELSE IF ProgenyIsStable(provider, progeny)
        THEN raise(StableError(progeny))
        ELSE LET chain_paths == EnumerateChainPaths(provider, parent, progeny)
             IN  IF chain_paths = <<>>
                 THEN [raised |-> TRUE,
                       error |-> NotInChainError(progeny, parent),
                       bcache |-> bcache, fcache |-> fcache,
                       enumerated |-> TRUE, chain_paths |-> chain_paths]
                 ELSE LET f == DecayTypeFraction(provider, fcache, dtype,
                                                 parent, progeny)
                          path_details ==
                              [i \in 1..Len(chain_paths) |->
                                  Details(chain_paths[i], f.value)]
                          total_branching_ratio ==
                              TotalBranchingRatio(chain_paths, f.value,
                                                  Len(chain_paths))
                          info ==
                              [branching_ratio |-> total_branching_ratio,
                               paths |-> SortDescending(path_details,
                                                        Len(path_details)),
                               decay_type_fraction_at_measured |-> f.value]
                      IN  IF RLess(total_branching_ratio, EPSILON)
                          THEN [raised |-> TRUE,
                                error |-> NotInChainError(progeny, parent),
                                bcache |-> bcache, fcache |-> f.fcache,
                                enumerated |-> TRUE,
                                chain_paths |-> chain_paths]
                          ELSE [raised |-> FALSE, info |-> info,
                                bcache |-> Put(bcache, cache_key, info),
                                fcache |-> f.fcache,
                                enumerated |-> TRUE,
                                chain_paths |-> chain_paths]

(***************************************************************************)
(* The calculator instance.                                                *)
(***************************************************************************)
VARIABLES
    provider,                       \* the nuclide data the instance reads
    pc,                             \* "new", "rejected", "ready",
                                    \* "calculating", "done", "crashed"
    measured_nuclide,
    measured_activity,
    parent_nuclides,
    decay_type,
    measured_activity_uncertainty,
    include_paths,
    decay_type_arg,                 \* the decay_type given to the constructor
    branching_cache,                \* self._branching_cache
    decay_fraction_cache,           \* self._decay_fraction_cache
    error,                          \* the exception that left the last call
    results,                        \* calculate()'s local dict
    idx,                            \* position of calculate()'s loop
    returned,                       \* what each finished calculate() returned
    calls,                          \* calls of calculate() so far
    enum_args,                      \* <<parent, progeny>> of the last call of
                                    \* _enumerate_chain_paths, <<>> before it
    chain_paths,                    \* what that call returned
    enum_count,                     \* calls of _enumerate_chain_paths so far
    dfs_pc,                         \* one call of _enumerate_chain_paths run
                                    \* call by call of dfs: "idle", "running",
                                    \* "done"
    dfs_args,                       \* its <<parent, progeny>>
    dfs_calls,                      \* the calls of dfs still to run and the
                                    \* paths appended, in depth-first order
    dfs_steps,                      \* calls of dfs run so far
    batch_pc,                       \* batch mode of the command line: "idle",
                                    \* "rows", "done"
    input_rows,                     \* the rows of the input CSV
    explain_paths,                  \* args.explain_paths
    row_index,                      \* position of the loop over the rows
    rows,                           \* the output rows
    had_errors,
    exit_code                       \* what _run_batch_mode returned

search_vars == <<dfs_pc, dfs_args, dfs_calls, dfs_steps>>

batch_vars == <<batch_pc, input_rows, explain_paths, row_index, rows,
                had_errors, exit_code>>

instance_vars == <<pc, measured_nuclide, measured_activity, parent_nuclides,
                   decay_type, measured_activity_uncertainty, include_paths,
                   decay_type_arg, branching_cache, decay_fraction_cache,
                   error, results, idx, returned, calls, enum_args,
                   chain_paths, enum_count>>

vars == <<provider, instance_vars, search_vars, batch_vars>>

\* None where a float is expected.
NoneFloat == [n |-> 0, d |-> 0, x |-> 0]

\* Arguments the model gives to the constructor.
MeasuredArgs == {"A", "D", "E", "Invalid-999"}

ParentArgs == {"A", "C", "D", "E", "Invalid-999"}

RECURSIVE SeqsUpTo(_, _)
SeqsUpTo(S, k) ==
    IF k = 0 THEN {<<>>}
    ELSE LET shorter == SeqsUpTo(S, k - 1)
         IN  shorter \cup {Append(q, e) : q \in shorter, e \in S}

ParentListArgs == SeqsUpTo(ParentArgs, MaxParents)

DecayTypeArgs == {None, <<"a">>, <<" ", "B", "-">>, <<"x">>, <<" ">>}

ActivityArgs == {Dec(100, 0), Zero, Dec(-100, 0)}

UncertaintyArgs == {NoneFloat, Dec(5, 0), Dec(-1, 0)}

\* The first parent that is no nuclide name, or None.
RECURSIVE FirstInvalid(_, _, _)
FirstInvalid(prov, parents, i) ==
    IF i > Len(parents) THEN None
    ELSE IF ~IsNuclideName(prov, parents[i]) THEN <<parents[i]>>
    ELSE FirstInvalid(prov, parents, i + 1)

\* _validate_nuclides without the test of the uncertainty.
ValidateWithoutUncertainty(prov, measured, parents, dtype, uncertainty) ==
    IF ~IsNuclideName(prov, measured)
    THEN ValueError("Invalid measured nuclide name", <<measured>>)
    ELSE IF FirstInvalid(prov, parents, 1) # None
    THEN ValueError("Invalid parent nuclide name",
                    FirstInvalid(prov, parents, 1))
    ELSE IF dtype # None /\ Strip(dtype) = <<>>
    THEN ValueError("Invalid decay type. Must be a non-empty string", dtype)
    ELSE IF dtype # None /\ dtype \notin VALID_DECAY_TYPES
    THEN ValueError("Invalid decay type", dtype)
    ELSE NoError

\* SecularEquilibriumCalculator._validate_nuclides: the ValueError it
\* raises, or NoError.

ValidateNuclides(prov, measured, parents, dtype, uncertainty) ==
    IF ~IsNuclideName(prov, measured)
    THEN ValueError("Invalid measured nuclide name", <<measured>>)
    ELSE IF FirstInvalid(prov, parents, 1) # None
    THEN ValueError("Invalid parent nuclide name",
                    FirstInvalid(prov, parents, 1))
    ELSE IF dtype # None /\ Strip(dtype) = <<>>
    THEN ValueError("Invalid decay type. Must be a non-empty string", dtype)
    ELSE IF dtype # None /\ dtype \notin VALID_DECAY_TYPES
    THEN ValueError("Invalid decay type", dtype)
    ELSE IF uncertainty # NoneFloat /\ RLess(uncertainty, Zero)
    THEN ValueError("measured_activity_uncertainty must be >= 0", <<>>)
    ELSE NoError

\* Nothing constructed, no search begun, no batch begun.
Idle ==
    /\ pc = "new"
    /\ measured_nuclide = ""
    /\ measured_activity = Zero
    /\ parent_nuclides = <<>>
    /\ decay_type = None
    /\ measured_activity_uncertainty = NoneFloat
    /\ include_paths = FALSE
    /\ decay_type_arg = None
    /\ branching_cache = EmptyDict
    /\ decay_fraction_cache = EmptyDict
    /\ error = NoError
    /\ results = EmptyDict
    /\ idx = 0
    /\ returned = <<>>
    /\ calls = 0
    /\ enum_args = <<>>
    /\ chain_paths = <<>>
    /\ enum_count = 0
    /\ dfs_pc = "idle"
    /\ dfs_args = <<>>
    /\ dfs_calls = <<>>
    /\ dfs_steps = 0
    /\ batch_pc = "idle"
    /\ input_rows = <<>>
    /\ explain_paths = FALSE
    /\ row_index = 0
    /\ rows = <<>>
    /\ had_errors = FALSE
    /\ exit_code = 0

Init ==
    /\ provider \in Networks
    /\ Idle

\* SecularEquilibriumCalculator.__init__
Construct(measured, activity, parents, dtype, uncertainty, paths) ==
    /\ pc = "new"
    /\ measured_nuclide' = measured
    /\ measured_activity' = activity
    /\ parent_nuclides' = parents
    /\ decay_type' = NormalizeDecayType(dtype)
    /\ decay_type_arg' = dtype
    /\ measured_activity_uncertainty' = uncertainty
    /\ include_paths' = paths
    /\ branching_cache' = EmptyDict
    /\ decay_fraction_cache' = EmptyDict
    /\ error' = ValidateNuclides(provider, measured, parents,
                                 NormalizeDecayType(dtype), uncertainty)
    /\ pc' = IF error' = NoError THEN "ready" ELSE "rejected"
    /\ UNCHANGED <<provider, results, idx, returned, calls, enum_args,
                   chain_paths, enum_count, search_vars, batch_vars>>

(***************************************************************************)
(* calculate().  Masses are held in units of                               *)
(* 1 / (avogadro_number * math.log(2)) gram: mass_coefficient is           *)
(* atomic_mass * half_life in that unit.                                   *)
(***************************************************************************)
\* 365.25 * 24 * 3600
SECONDS_PER_YEAR == Dec(315576, 2)

\* The record calculate() stores when _get_branching_info raised.
FailureRecord(message, paths) ==
    LET result == [activity_Bq |-> Zero, mass_g |-> Zero,
                   branching_ratio |-> Zero, halflife_yr |-> Zero,
                   error |-> message]
    IN  IF paths
        THEN [k \in (DOMAIN result) \cup {"paths", "total_branching_ratio"} |->
                 CASE k = "paths" -> <<>>
                   [] k = "total_branching_ratio" -> Zero
                   [] OTHER -> result[k]]
        ELSE result

\* ParentActivity multiplying where the program divides.
ParentActivityMultiplied(activity, branching_ratio) ==
    RMul(activity, branching_ratio)

\* parent_activity = self.measured_activity / branching_ratio
ParentActivity(activity, branching_ratio) == RDiv(activity, branching_ratio)

\* RelativeUncertainty without the division by the activity.
RelativeUncertaintyUndivided(activity_uncertainty, parent_activity) ==
    IF parent_activity = Zero THEN NoneFloat ELSE activity_uncertainty

\* relative_uncertainty, from activity_uncertainty and parent_activity.
RelativeUncertainty(activity_uncertainty, parent_activity) ==
    IF parent_activity = Zero THEN NoneFloat
    ELSE RDiv(activity_uncertainty, RAbs(parent_activity))

\* ParentMass with 0 for a parent of infinite half-life.
ParentMassZeroWhenStable(parent_activity, parent_mass_amu, parent_halflife_s) ==
    IF IsInf(parent_halflife_s) THEN Zero
    ELSE RMul(parent_activity, RMul(parent_mass_amu, parent_halflife_s))

\* parent_mass: infinite for an infinite half-life, parent_activity *
\* mass_coefficient otherwise.
ParentMass(parent_activity, parent_mass_amu, parent_halflife_s) ==
    IF IsInf(parent_halflife_s) THEN Inf
    ELSE RMul(parent_activity, RMul(parent_mass_amu, parent_halflife_s))

\* The record calculate() stores for a parent whose branching info is info.
SuccessRecord(prov, parent, info, activity, uncertainty, paths) ==
    LET branching_ratio == info.branching_ratio
        parent_activity == ParentActivity(activity, branching_ratio)
        parent_halflife_s == prov[parent].half_life
        parent_halflife_yr == RDiv(parent_halflife_s, SECONDS_PER_YEAR)
        parent_mass_amu == prov[parent].atomic_mass
        mass_coefficient == RMul(parent_mass_amu, parent_halflife_s)
        parent_mass == ParentMass(parent_activity, parent_mass_amu,
                                  parent_halflife_s)
        activity_uncertainty == RDiv(uncertainty, branching_ratio)
        mass_uncertainty == IF IsInf(parent_halflife_s) THEN Inf
                            ELSE RMul(activity_uncertainty, mass_coefficient)
        result == [activity_Bq |-> parent_activity,
                   mass_g |-> parent_mass,
                   branching_ratio |-> branching_ratio,
                   halflife_yr |-> parent_halflife_yr,
                   atomic_mass |-> parent_mass_amu]
        extra == (IF uncertainty # NoneFloat
                  THEN {"activity_uncertainty_Bq", "mass_uncertainty_g",
                        "relative_uncertainty"}
                  ELSE {})
                 \cup
                 (IF paths THEN {"paths", "total_branching_ratio"} ELSE {})
    IN  [k \in (DOMAIN result) \cup extra |->
            CASE k = "activity_uncertainty_Bq" -> activity_uncertainty
              [] k = "mass_uncertainty_g" -> mass_uncertainty
              [] k = "relative_uncertainty" ->
                     RelativeUncertainty(activity_uncertainty, parent_activity)
              [] k = "paths" -> info.paths
              [] k = "total_branching_ratio" -> branching_ratio
              [] OTHER -> result[k]]

\* The record of one parent, from what _get_branching_info did.
ParentRecord(prov, parent, outcome, activity, uncertainty, paths) ==
    IF outcome.raised THEN FailureRecord(outcome.error, paths)
    ELSE SuccessRecord(prov, parent, outcome.info, activity, uncertainty,
                       paths)

\* calculate() is called: results = {} and the loop starts.
CalculateBegin ==
    /\ pc \in {"ready", "done"}
    /\ calls < MaxCalls
    /\ calls' = calls + 1
    /\ results' = EmptyDict
    /\ idx' = 1
    /\ error' = NoError
    /\ pc' = "calculating"
    /\ UNCHANGED <<provider, measured_nuclide, measured_activity,
                   parent_nuclides, decay_type, measured_activity_uncertainty,
                   include_paths, decay_type_arg, branching_cache,
                   decay_fraction_cache,
                   returned, enum_args, chain_paths, enum_count, search_vars,
                   batch_vars>>

\* One iteration of the loop over self.parent_nuclides.  A division by a
\* zero branching ratio is a ZeroDivisionError, which calculate() does not
\* catch.
CalculateParent ==
    /\ pc = "calculating"
    /\ idx <= Len(parent_nuclides)
    /\ LET parent == parent_nuclides[idx]
           outcome == GetBranchingInfo(provider, branching_cache,
                                       decay_fraction_cache, decay_type,
                                       parent, measured_nuclide)
       IN  /\ branching_cache' = outcome.bcache
           /\ decay_fraction_cache' = outcome.fcache
           /\ IF outcome.enumerated
              THEN /\ enum_args' = <<parent, measured_nuclide>>
                   /\ chain_paths' = outcome.chain_paths
                   /\ enum_count' = enum_count + 1
              ELSE UNCHANGED <<enum_args, chain_paths, enum_count>>
           /\ IF ~outcome.raised /\ outcome.info.branching_ratio = Zero
              THEN /\ pc' = "crashed"
                   /\ error' = ValueError("ZeroDivisionError", <<parent>>)
                   /\ UNCHANGED <<results, idx>>
              ELSE /\ results' = Put(results, parent,
                                     ParentRecord(provider, parent, outcome,
                                                  measured_activity,
                                                  measured_activity_uncertainty,
                                                  include_paths))
                   /\ idx' = idx + 1
                   /\ UNCHANGED <<pc, error>>
    /\ UNCHANGED <<provider, measured_nuclide, measured_activity,
                   parent_nuclides, decay_type, measured_activity_uncertainty,
                   include_paths, decay_type_arg, returned, calls,
                   search_vars, batch_vars>>

\* return results
CalculateReturn ==
    /\ pc = "calculating"
    /\ idx > Len(parent_nuclides)
    /\ returned' = Append(returned, results)
    /\ pc' = "done"
    /\ UNCHANGED <<provider, measured_nuclide, measured_activity,
                   parent_nuclides, decay_type, measured_activity_uncertainty,
                   include_paths, decay_type_arg, branching_cache,
                   decay_fraction_cache,
                   error, results, idx, calls, enum_args, chain_paths,
                   enum_count, search_vars, batch_vars>>

Next ==
    \/ /\ pc = "new"
       /\ \E measured \in MeasuredArgs, activity \in ActivityArgs,
             parents \in ParentListArgs, dtype \in DecayTypeArgs,
             uncertainty \in UncertaintyArgs, paths \in BOOLEAN :
             Construct(measured, activity, parents, dtype, uncertainty, paths)
    \/ CalculateBegin
    \/ CalculateParent
    \/ CalculateReturn

Spec == Init /\ [][Next]_vars

(***************************************************************************)
(* The constructor given decay-type tokens of every spelling: shorthands   *)
(* in lower, upper and mixed case, canonical symbols, tokens with          *)
(* whitespace around them, unrecognised tokens, the empty token.           *)
(***************************************************************************)
TokenArgs ==
    {None, <<"a">>, <<"A">>, <<"a", "l", "p", "h", "a">>,
     <<"A", "l", "p", "h", "a">>, <<"A", "L", "P", "H", "A">>, <<"b">>,
     <<"B">>, <<"b", "-">>, <<"B", "-">>, <<"b", "e", "t", "a">>,
     <<"B", "E", "T", "A">>, <<"b", "e", "t", "a", "-">>,
     <<"B", "e", "t", "a", "-">>, <<"b", "+">>, <<"B", "+">>,
     <<"b", "e", "t", "a", "+">>, <<"B", "E", "T", "A", "+">>, <<"e">>,
     <<"E">>, <<"e", "c">>, <<"E", "c">>, <<"E", "C">>, <<"α">>,
     <<"β", "-">>, <<"β", "+">>, <<"S", "F">>, <<"I", "T">>, <<"p">>,
     <<"n">>, <<"d">>, <<"t">>, <<"P">>, <<"s", "f">>, <<"x">>, <<"a", "b">>,
     <<"a", "l", "p", "h">>, <<" ", "a">>, <<"a", " ">>, <<" ", "B", "-">>,
     <<"\t", "B", "e", "t", "a", "+", "\n">>, <<" ", "S", "F", " ">>,
     <<" ", "x">>, <<" ", "α">>, <<" ">>, <<>>}

ShorthandMeasuredArgs == {"A", "D"}

ShorthandParentListArgs == {<<"A", "C">>, <<"C", "D">>}

ConstructWithToken ==
    /\ pc = "new"
    /\ \E token \in TokenArgs, measured \in ShorthandMeasuredArgs,
          parents \in ShorthandParentListArgs :
          Construct(measured, Dec(100, 0), parents, token, Dec(5, 0), FALSE)

ShorthandNext ==
    \/ ConstructWithToken
    \/ CalculateBegin
    \/ CalculateParent
    \/ CalculateReturn

ShorthandSpec == Init /\ [][ShorthandNext]_vars

(***************************************************************************)
(* One call of _enumerate_chain_paths run one call of dfs at a time, on    *)
(* the networks above and on every network in which A and B have any decay *)
(* table of at most MaxBranches entries that lead to A, B or D.            *)
(***************************************************************************)
StepArgs == {Step(ALPHA, Dec(5, -1), child) : child \in {"A", "B", "D"}}

TableArgs == SeqsUpTo(StepArgs, MaxBranches)

GeneratedNet(tableA, tableB) ==
    [id \in Ids |->
       CASE id = "A" -> Nuclide(Dec(36, 5), Dec(238, 0), tableA)
         [] id = "B" -> Nuclide(Dec(36, 2), Dec(234, 0), tableB)
         [] id = "C" -> Nuclide(Dec(6, 1), Dec(230, 0),
                          << Step(BETA_MINUS, Dec(5, -1), "D"),
                             Step(ALPHA, Dec(5, -1), "A") >>)
         [] id = "D" -> Nuclide(Dec(12, 2), Dec(226, 0),
                          << Step(BETA_MINUS, One, "E") >>)
         [] id = "E" -> Nuclide(Inf, Dec(206, 0), <<>>)
         [] OTHER -> NoNuclide]

SearchNetworks ==
    Networks \cup {GeneratedNet(a, b) : a \in TableArgs, b \in TableArgs}

\* <<parent, progeny>> of the searches the model runs.
SearchArgs == {<<"A", "D">>, <<"A", "C">>, <<"D", "A">>, <<"A", "A">>}

SearchInit ==
    /\ provider \in SearchNetworks
    /\ Idle

\* The calls of dfs that have not run yet.
PendingCalls == {i \in DOMAIN dfs_calls : dfs_calls[i].pending}

\* _enumerate_chain_paths(parent, progeny) up to the first call of dfs.
SearchBegin(parent, progeny) ==
    /\ dfs_pc = "idle"
    /\ dfs_args' = <<parent, progeny>>
    /\ dfs_steps' = 0
    /\ IF parent = progeny
       THEN /\ dfs_calls' =
                  << [Call(parent, {parent}, <<parent>>, <<>>, <<>>, One, 0)
                         EXCEPT !.pending = FALSE] >>
            /\ dfs_pc' = "done"
       ELSE /\ dfs_calls' =
                  << Call(parent, {parent}, <<parent>>, <<>>, <<>>, One, 0) >>
            /\ dfs_pc' = "running"
    /\ UNCHANGED <<provider, instance_vars, batch_vars>>

\* The next call of dfs in depth-first order runs: its path or its
\* recursive calls take its place.
SearchStep ==
    /\ dfs_pc = "running"
    /\ PendingCalls # {}
    /\ dfs_steps < MaxSearchSteps
    /\ LET i == CHOOSE k \in PendingCalls : \A m \in PendingCalls : k <= m
       IN  dfs_calls' = SubSeq(dfs_calls, 1, i - 1)
                        \o DfsBody(provider, dfs_args[2], dfs_calls[i])
                        \o SubSeq(dfs_calls, i + 1, Len(dfs_calls))
    /\ dfs_steps' = dfs_steps + 1
    /\ UNCHANGED <<provider, instance_vars, batch_vars, dfs_pc, dfs_args>>

\* return paths
SearchReturn ==
    /\ dfs_pc = "running"
    /\ PendingCalls = {}
    /\ dfs_pc' = "done"
    /\ UNCHANGED <<provider, instance_vars, batch_vars, dfs_args, dfs_calls,
                   dfs_steps>>

SearchNext ==
    \/ \E args \in SearchArgs : SearchBegin(args[1], args[2])
    \/ SearchStep
    \/ SearchReturn

\* The interpreter runs the next call of dfs and the return: weak fairness
\* of both.
SearchSpec ==
    /\ SearchInit
    /\ [][SearchNext]_vars
    /\ WF_vars(SearchStep)
    /\ WF_vars(SearchReturn)

(***************************************************************************)
(* Batch mode of the command line: _run_batch_mode reads the rows of the   *)
(* input CSV, runs one calculation per row and returns the exit code.      *)
(* The texts of a row are sequences of characters.                         *)
(***************************************************************************)
MaxRows == 2

\* The characters of a text put together: the text as a name.
RECURSIVE Join(_)
Join(chars) == IF chars = <<>> THEN "" ELSE chars[1] \o Join(Tail(chars))

\* The value of a decimal digit, -1 for any other character.
Digit(c) ==
    CASE c = "0" -> 0 [] c = "1" -> 1 [] c = "2" -> 2 [] c = "3" -> 3
      [] c = "4" -> 4 [] c = "5" -> 5 [] c = "6" -> 6 [] c = "7" -> 7
      [] c = "8" -> 8 [] c = "9" -> 9 [] OTHER -> -1

\* The value of a text of digits, -1 when a character is no digit.
RECURSIVE DigitsValue(_, _, _)
DigitsValue(text, i, value) ==
    IF i > Len(text) THEN value
    ELSE IF Digit(text[i]) < 0 THEN -1
    ELSE DigitsValue(text, i + 1, 10 * value + Digit(text[i]))

\* float(text) for the texts the model reads: an integer literal with an
\* optional sign between optional white space; any other text is a
\* ValueError.
Float(text) ==
    LET s == Strip(text)
        signed == s # <<>> /\ s[1] \in {"+", "-"}
        digits == IF signed THEN Tail(s) ELSE s
        value == DigitsValue(digits, 1, 0)
    IN  IF digits = <<>> \/ value < 0
        THEN [raised |-> TRUE,
              error |-> ValueError("could not convert string to float", text),
              value |-> NoneFloat]
        ELSE [raised |-> FALSE, error |-> NoError,
              value |-> Dec(IF signed /\ s[1] = "-" THEN -value ELSE value,
                            0)]

\* _parse_optional_float
ParseOptionalFloat(raw_value) ==
    LET text == Strip(raw_value)
    IN  IF text = <<>>
        THEN [raised |-> FALSE, error |-> NoError, value |-> NoneFloat]
        ELSE Float(text)

\* text.split(sep) for the one-character separators in seps: the items
\* between the separators, empty items included.
RECURSIVE Split(_, _, _, _)
Split(text, seps, i, item) ==
    IF i > Len(text) THEN <<item>>
    ELSE IF text[i] \in seps
    THEN <<item>> \o Split(text, seps, i + 1, <<>>)
    ELSE Split(text, seps, i + 1, Append(item, text[i]))

\* [item.strip() for item in parts if item.strip()], each item as a name.
RECURSIVE StrippedItems(_, _)
StrippedItems(parts, i) ==
    IF i > Len(parts) THEN <<>>
    ELSE IF Strip(parts[i]) = <<>> THEN StrippedItems(parts, i + 1)
    ELSE <<Join(Strip(parts[i]))>> \o StrippedItems(parts, i + 1)

\* _parse_parent_nuclides.  text.split() without a separator splits at
\* runs of white space and gives no empty item; splitting at every white
\* space character and dropping the empty items gives the same list.
ParseParentNuclides(raw_value) ==
    LET text == Strip(raw_value)
        seps == IF \E i \in 1..Len(text) : text[i] = ";" THEN {";"}
                ELSE IF \E i \in 1..Len(text) : text[i] = "," THEN {","}
                ELSE {" ", "\t", "\n"}
    IN  IF text = <<>> THEN <<>>
        ELSE StrippedItems(Split(text, seps, 1, <<>>), 1)

\* The loop of calculate() from parent i on: the results it returns, or
\* the exception that leaves it.
RECURSIVE CalculateLoop(_, _, _, _, _, _, _, _, _, _, _)
CalculateLoop(prov, measured, activity, parents, dtype, uncertainty, paths, bcache, fcache, res, i) ==
    IF i > Len(parents)
    THEN [raised |-> FALSE, error |-> NoError, results |-> res]
    ELSE LET parent == parents[i]
             outcome == GetBranchingInfo(prov, bcache, fcache, dtype, parent,
                                         measured)
         IN  IF ~outcome.raised /\ outcome.info.branching_ratio = Zero
             THEN [raised |-> TRUE,
                   error |-> ValueError("ZeroDivisionError", <<parent>>),
                   results |-> res]
             ELSE CalculateLoop(prov, measured, activity, parents, dtype,
                                uncertainty, paths, outcome.bcache,
                                outcome.fcache,
                                Put(res, parent,
                                    ParentRecord(prov, parent, outcome,
                                                 activity, uncertainty,
                                                 paths)),
                                i + 1)

\* calculate_secular_equilibrium: the constructor, then calculate().
CalculateSecularEquilibrium(prov, measured, activity, parents, dtype, uncertainty, paths) ==
    LET normalized == NormalizeDecayType(dtype)
        invalid == ValidateNuclides(prov, measured, parents, normalized,
                                    uncertainty)
    IN  IF invalid # NoError
        THEN [raised |-> TRUE, error |-> invalid, results |-> EmptyDict]
        ELSE CalculateLoop(prov, measured, activity, parents, normalized,
                           uncertainty, paths, EmptyDict, EmptyDict,
                           EmptyDict, 1)

\* A field of an output row: its text is "" (empty), "inf", "e" (a float
\* in the format {0:.12e}, the digits not modelled, of the value given) or
\* "json" (json.dumps of the value given).
Field(text, value) == [text |-> text, value |-> value]

\* ''
EmptyField == Field("", Zero)

\* _csv_value of a float or None.  No value of the model is -inf.
CsvValue(value) ==
    IF value = NoneFloat THEN EmptyField
    ELSE IF IsInf(value) THEN Field("inf", Zero)
    ELSE Field("e", value)

\* The empty error text ''.
NoText == ValueError("", <<>>)

\* dict.get(key): None for a key the dict does not have.
Get(dict, key) == IF key \in DOMAIN dict THEN dict[key] ELSE NoneFloat

\* {**row_base, ...}
Merge(row_base, fields) ==
    [k \in (DOMAIN row_base) \cup (DOMAIN fields) |->
        IF k \in DOMAIN fields THEN fields[k] ELSE row_base[k]]

\* row_base of the row read at line index of the CSV.
RowBase(input_row, index) ==
    [input_row |-> index,
     measured_nuclide |-> Join(Strip(input_row.measured_nuclide)),
     measured_activity |-> Strip(input_row.measured_activity),
     parent_nuclides |-> Strip(input_row.parent_nuclides),
     decay_type |-> Strip(input_row.decay_type),
     measured_activity_uncertainty |->
         Strip(input_row.measured_activity_uncertainty)]

\* The body of the try statement up to the call of
\* calculate_secular_equilibrium: what it raised, or the results.
RowRequest(prov, input_row, index, paths) ==
    LET measured == Join(Strip(input_row.measured_nuclide))
        measured_activity_f == Float(Strip(input_row.measured_activity))
        parents == ParseParentNuclides(Strip(input_row.parent_nuclides))
        uncertainty ==
            ParseOptionalFloat(Strip(input_row.measured_activity_uncertainty))
        decay_type_text == IF Strip(input_row.decay_type) = <<>> THEN None
                           ELSE Strip(input_row.decay_type)
        Raise(exc) == [raised |-> TRUE, error |-> exc, results |-> EmptyDict]
    IN  IF measured_activity_f.raised THEN Raise(measured_activity_f.error)
        ELSE IF uncertainty.raised THEN Raise(uncertainty.error)
        ELSE IF measured = ""
        THEN Raise(ValueError("row: measured_nuclide is empty",
                              <<ToString(index)>>))
        ELSE IF parents = <<>>
        THEN Raise(ValueError("row: parent_nuclides is empty",
                              <<ToString(index)>>))
        ELSE CalculateSecularEquilibrium(prov, measured,
                                         measured_activity_f.value, parents,
                                         decay_type_text, uncertainty.value,
                                         paths)

\* The output row of one parent of a row whose calculation returned.
ParentRow(row_base, parent, res, paths) ==
    LET data == IF parent \in DOMAIN res THEN res[parent] ELSE EmptyDict
    IN  Merge(row_base,
              [parent |-> parent,
               activity_Bq |-> CsvValue(Get(data, "activity_Bq")),
               mass_g |-> CsvValue(Get(data, "mass_g")),
               branching_ratio |-> CsvValue(Get(data, "branching_ratio")),
               halflife_yr |-> CsvValue(Get(data, "halflife_yr")),
               atomic_mass |-> CsvValue(Get(data, "atomic_mass")),
               activity_uncertainty_Bq |->
                   CsvValue(Get(data, "activity_uncertainty_Bq")),
               mass_uncertainty_g |->
                   CsvValue(Get(data, "mass_uncertainty_g")),
               relative_uncertainty |->
                   CsvValue(Get(data, "relative_uncertainty")),
               paths_json |-> IF paths /\ "paths" \in DOMAIN data
                              THEN [text |-> "json", value |-> data.paths]
                              ELSE [text |-> "", value |-> <<>>],
               error |-> IF "error" \in DOMAIN data THEN data.error
                         ELSE NoText])

\* for parent in parent_nuclides: rows.append(...)
ParentRows(row_base, parents, res, paths) ==
    [i \in 1..Len(parents) |-> ParentRow(row_base, parents[i], res, paths)]

\* The output row of a row whose calculation raised exc.
ErrorRow(row_base, exc) ==
    Merge(row_base,
          [parent |-> "",
           activity_Bq |-> EmptyField,
           mass_g |-> EmptyField,
           branching_ratio |-> EmptyField,
           halflife_yr |-> EmptyField,
           atomic_mass |-> EmptyField,
           activity_uncertainty_Bq |-> EmptyField,
           mass_uncertainty_g |-> EmptyField,
           relative_uncertainty |-> EmptyField,
           paths_json |-> [text |-> "", value |-> <<>>],
           error |-> exc])

\* 1 if had_errors else 0, with 0 in both cases.
ExitCodeZero(errors) == 0

\* return 1 if had_errors else 0
ExitCode(errors) == IF errors THEN 1 ELSE 0

\* The rows the model puts in the input CSV: a row that calculates, an
\* invalid measured nuclide, a stable ancestor next to a good one with an
\* uncertainty, an activity that is no number, no ancestor, a list with
\* commas and a decay type, no measured nuclide, a negative uncertainty.
InputRow(measured, activity, parents, dtype, uncertainty) ==
    [measured_nuclide |-> measured, measured_activity |-> activity,
     parent_nuclides |-> parents, decay_type |-> dtype,
     measured_activity_uncertainty |-> uncertainty]

RowArgs ==
    { InputRow(<<"D">>, <<"1", "0", "0">>, <<"A">>, <<>>, <<>>),
      InputRow(<<"I", "n", "v", "a", "l", "i", "d", "-", "9", "9", "9">>,
               <<"1", "0", "0">>, <<"A">>, <<>>, <<>>),
      InputRow(<<" ", "D">>, <<"1", "0", "0">>, <<"A", ";", "E">>, <<>>,
               <<"5">>),
      InputRow(<<"D">>, <<"a", "b", "c">>, <<"A">>, <<>>, <<>>),
      InputRow(<<"D">>, <<"1", "0", "0">>, <<" ">>, <<>>, <<>>),
      InputRow(<<"D">>, <<"1", "0", "0">>, <<"C", ",", " ", "A">>, <<"a">>,
               <<>>),
      InputRow(<<>>, <<"1", "0", "0">>, <<"A">>, <<>>, <<>>),
      InputRow(<<"D">>, <<"1", "0", "0">>, <<"A", " ", "C">>, <<>>,
               <<"-", "1">>) }

CsvArgs == SeqsUpTo(RowArgs, MaxRows)

\* _run_batch_mode is called: the reader is opened, rows = [] and
\* had_errors = False.
BatchBegin(csv, paths) ==
    /\ batch_pc = "idle"
    /\ batch_pc' = "rows"
    /\ input_rows' = csv
    /\ explain_paths' = paths
    /\ row_index' = 1
    /\ rows' = <<>>
    /\ had_errors' = FALSE
    /\ UNCHANGED <<provider, instance_vars, search_vars, exit_code>>

\* One iteration of the loop over the reader: the row is at line
\* row_index + 1 of the CSV, the header being line 1.
BatchRow ==
    /\ batch_pc = "rows"
    /\ row_index <= Len(input_rows)
    /\ LET index == row_index + 1
           input_row == input_rows[row_index]
           row_base == RowBase(input_row, index)
           request == RowRequest(provider, input_row, index, explain_paths)
           parents == ParseParentNuclides(Strip(input_row.parent_nuclides))
           new_rows == ParentRows(row_base, parents, request.results,
                                  explain_paths)
       IN  IF request.raised
           THEN /\ had_errors' = TRUE
                /\ rows' = Append(rows, ErrorRow(row_base, request.error))
           ELSE /\ had_errors' = (had_errors \/
                                  \E i \in 1..Len(new_rows) :
                                      new_rows[i].error # NoText)
                /\ rows' = rows \o new_rows
    /\ row_index' = row_index + 1
    /\ UNCHANGED <<provider, instance_vars, search_vars, batch_pc, input_rows,
                   explain_paths, exit_code>>

\* The reader is exhausted: the rows are written and the exit code is
\* returned.
BatchReturn ==
    /\ batch_pc = "rows"
    /\ row_index > Len(input_rows)
    /\ exit_code' = ExitCode(had_errors)
    /\ batch_pc' = "done"
    /\ UNCHANGED <<provider, instance_vars, search_vars, input_rows,
                   explain_paths, row_index, rows, had_errors>>

BatchInit == Init

BatchNext ==
    \/ \E csv \in CsvArgs, paths \in BOOLEAN : BatchBegin(csv, paths)
    \/ BatchRow
    \/ BatchReturn

BatchSpec == BatchInit /\ [][BatchNext]_vars

(***************************************************************************)
(* The calculator on chains longer than the depth bound of the search:     *)
(* N0 -> N1 -> ... -> N32, N32 stable.                                     *)
(***************************************************************************)
ChainNames ==
    << "N0", "N1", "N2", "N3", "N4", "N5", "N6", "N7", "N8", "N9",
       "N10", "N11", "N12", "N13", "N14", "N15", "N16", "N17",
       "N18", "N19", "N20", "N21", "N22", "N23", "N24", "N25",
       "N26", "N27", "N28", "N29", "N30", "N31", "N32" >>

ChainIds == {ChainNames[i] : i \in DOMAIN ChainNames}

\* The position of a name in the chain.
ChainIndex(id) == CHOOSE i \in DOMAIN ChainNames : ChainNames[i] = id

\* Every nuclide of the chain decays to the next one; the last is stable.
LongChain ==
    [id \in ChainIds |->
       IF ChainIndex(id) = Len(ChainNames)
       THEN Nuclide(Inf, Dec(206, 0), <<>>)
       ELSE Nuclide(Dec(36, 2), Dec(230, 0),
                    << Step(ALPHA, One, ChainNames[ChainIndex(id) + 1]) >>)]

\* The chain with a second decay mode of N0 that leads to N2 at once: two
\* routes from N0 to every later nuclide, one a step shorter than the
\* other.
ShortcutChain ==
    [id \in ChainIds |->
       IF id = "N0"
       THEN Nuclide(Dec(36, 2), Dec(230, 0),
                    << Step(ALPHA, Dec(5, -1), "N1"),
                       Step(BETA_MINUS, Dec(5, -1), "N2") >>)
       ELSE LongChain[id]]

ChainNetworks == {LongChain, ShortcutChain}

ChainMeasuredArgs == {"N29", "N30", "N31", "N32"}

ChainParentArgs == {"N0", "N1", "N2"}

ChainParentListArgs == SeqsUpTo(ChainParentArgs, MaxParents)

DepthInit ==
    /\ provider \in ChainNetworks
    /\ Idle

DepthNext ==
    \/ /\ pc = "new"
       /\ \E measured \in ChainMeasuredArgs, parents \in ChainParentListArgs,
             paths \in BOOLEAN :
             Construct(measured, Dec(100, 0), parents, None, NoneFloat, paths)
    \/ CalculateBegin
    \/ CalculateParent
    \/ CalculateReturn

DepthSpec == DepthInit /\ [][DepthNext]_vars

(***************************************************************************)
(* The calculator on generated networks whose branching fractions may or   *)
(* may not sum to at most 1: A and B get every decay table of up to        *)
(* MaxBranches entries, with converging routes and self-loops among them;  *)
(* DiamondNet and CycleNet are searched as well.                           *)
(***************************************************************************)
FractionStepArgs ==
    { Step(ALPHA, Dec(5, -1), "B"), Step(ALPHA, Dec(5, -1), "D"),
      Step(BETA_MINUS, One, "D") }

FractionTableArgs == SeqsUpTo(FractionStepArgs, MaxBranches)

FractionNetworks ==
    {DiamondNet, CycleNet}
    \cup {GeneratedNet(a, b) : a \in FractionTableArgs,
                              b \in FractionTableArgs}

FractionActivityArgs == {Dec(100, 0), Dec(-100, 0)}

FractionParentListArgs == {<<"A">>, <<"A", "B">>}

FractionInit ==
    /\ provider \in FractionNetworks
    /\ Idle

FractionNext ==
    \/ /\ pc = "new"
       /\ \E activity \in FractionActivityArgs,
             parents \in FractionParentListArgs :
             Construct("D", activity, parents, None, NoneFloat, FALSE)
    \/ CalculateBegin
    \/ CalculateParent
    \/ CalculateReturn

FractionSpec == FractionInit /\ [][FractionNext]_vars

(***************************************************************************)
(* Properties.                                                             *)
(***************************************************************************)
\* calculate() is running or has returned.
Calculating == pc \in {"calculating", "done"}

\* The positions of parent_nuclides the loop of calculate() has dealt with.
Processed == IF Calculating THEN 1..(idx - 1) ELSE {}

\* What _get_branching_info does for parent on an instance with empty
\* caches: the parent calculated alone.
Alone(parent) ==
    GetBranchingInfo(provider, EmptyDict, EmptyDict, decay_type, parent,
                     measured_nuclide)

HasError(record) == "error" \in DOMAIN record

MeasuredIsStable ==
    /\ pc # "new"
    /\ IsNuclideName(provider, measured_nuclide)
    /\ IsInf(provider[measured_nuclide].half_life)

\* C1: a parent whose aggregation raises does not make calculate() raise:
\* it gets a record with activity, mass, branching ratio and half-life 0
\* and the error message, the loop goes on to the next parent, and every
\* parent's record is the one it gets when it is calculated alone.
C1_FailureStaysWithItsParent ==
    /\ pc # "crashed"
    /\ Calculating => error = NoError
    /\ \A j \in Processed :
          LET parent == parent_nuclides[j]
              alone == Alone(parent)
          IN  /\ parent \in DOMAIN results
              /\ alone.raised =>
                    /\ HasError(results[parent])
                    /\ results[parent].error = alone.error
                    /\ results[parent].activity_Bq = Zero
                    /\ results[parent].mass_g = Zero
                    /\ results[parent].branching_ratio = Zero
                    /\ results[parent].halflife_yr = Zero
              /\ ~alone.raised =>
                    results[parent] =
                        SuccessRecord(provider, parent, alone.info,
                                      measured_activity,
                                      measured_activity_uncertainty,
                                      include_paths)
    /\ pc = "done" =>
          /\ DOMAIN results = {parent_nuclides[j] : j \in DOMAIN parent_nuclides}
          /\ returned[Len(returned)] = results

\* A finished calculate() whose first parent has no path to the measured
\* nuclide and whose second parent has one.
C1_Witness ==
    /\ pc = "done"
    /\ Len(parent_nuclides) = 2
    /\ HasError(results[parent_nuclides[1]])
    /\ results[parent_nuclides[1]].error =
          NotInChainError(measured_nuclide, parent_nuclides[1])
    /\ ~HasError(results[parent_nuclides[2]])
    /\ results[parent_nuclides[2]].branching_ratio # One

\* C2, as claimed: with a stable measured nuclide an error leaves
\* calculate() before any parent is dealt with, so no parent gets a record.
C2_NoRecordWhenMeasuredStable ==
    (Calculating /\ MeasuredIsStable) =>
        /\ DOMAIN results = {}
        /\ \A c \in DOMAIN returned : DOMAIN returned[c] = {}

\* C2, amended: with a stable measured nuclide _get_branching_info raises
\* the stable-nuclide error for every parent before it enumerates a path;
\* calculate() catches it, so every parent dealt with gets the failure
\* record with that error, none a success record, and nothing is cached.
C2_EveryParentFailsWhenMeasuredStable ==
    (Calculating /\ MeasuredIsStable) =>
        /\ error = NoError
        /\ enum_count = 0
        /\ branching_cache = EmptyDict
        /\ \A j \in Processed :
              /\ parent_nuclides[j] \in DOMAIN results
              /\ results[parent_nuclides[j]] =
                    FailureRecord(StableError(measured_nuclide), include_paths)

\* A finished calculate() for a stable measured nuclide and two parents,
\* one of them the measured nuclide itself.
C2_Witness ==
    /\ pc = "done"
    /\ MeasuredIsStable
    /\ Len(parent_nuclides) = 2
    /\ parent_nuclides[1] = measured_nuclide
    /\ parent_nuclides[2] # measured_nuclide
    /\ Cardinality(DOMAIN results) = 2

\* The arguments the constructor must refuse.
InvalidArguments ==
    \/ ~IsNuclideName(provider, measured_nuclide)
    \/ \E j \in DOMAIN parent_nuclides :
          ~IsNuclideName(provider, parent_nuclides[j])
    \/ decay_type # None /\ decay_type \notin VALID_DECAY_TYPES
    \/ /\ measured_activity_uncertainty # NoneFloat
       /\ measured_activity_uncertainty.n < 0

\* C3: an invalid measured nuclide, an invalid parent, a decay type that
\* is not one of the ten valid ones after normalisation, or a negative
\* uncertainty makes the constructor raise a ValueError, and then nothing
\* is ever calculated; other arguments, a decay type of None among them,
\* are accepted.
C3_InvalidArgumentsRejected ==
    pc # "new" =>
        /\ InvalidArguments =>
              /\ pc = "rejected"
              /\ error # NoError
              /\ calls = 0 /\ enum_count = 0
              /\ results = EmptyDict /\ returned = <<>>
              /\ branching_cache = EmptyDict
        /\ ~InvalidArguments => pc # "rejected" /\ error = NoError

\* A constructor call refused only because of its decay type.
C3_Witness ==
    /\ pc = "rejected"
    /\ error.kind = "Invalid decay type"
    /\ measured_activity_uncertainty = Dec(5, 0)
    /\ Len(parent_nuclides) = 2

\* The paths _enumerate_chain_paths returned last, as a set.
ReturnedPaths == {chain_paths[i] : i \in DOMAIN chain_paths}

NoRepeat(nodes) ==
    \A a, b \in DOMAIN nodes : a # b => nodes[a] # nodes[b]

\* C4: no nuclide occurs twice in a path the enumerator returns (while one
\* nuclide may be in several of the paths returned).
C4_NoNuclideTwiceInAPath ==
    \A p \in ReturnedPaths : NoRepeat(p.nodes)

\* The enumerator returned two paths with different node lists that share
\* a nuclide between their ends, one reached over two sibling branches.
C4_Witness ==
    \E p, q \in ReturnedPaths :
        /\ p.nodes # q.nodes
        /\ Len(p.nodes) # Len(q.nodes)
        /\ \E a \in 2..(Len(p.nodes) - 1), b \in 2..(Len(q.nodes) - 1) :
              p.nodes[a] = q.nodes[b] /\ a # b

\* The routes of C5, built breadth-first as sets: a route is extended by
\* every decay-table entry of its last nuclide whose progeny is a nuclide
\* the route does not contain; a route that ends in the target is complete
\* and is not extended; routes have at most MAX_DEPTH steps.
RouteExtensions(prov, route) ==
    LET last == route.nodes[Len(route.nodes)]
        table == prov[last].table
    IN  { Path(Append(route.nodes, table[i].child),
               Append(route.decay_modes, table[i].mode),
               Append(route.step_branching_fractions, table[i].fraction),
               RMul(route.chain_branching_ratio, table[i].fraction)) :
          i \in { k \in DOMAIN table :
                    /\ prov[table[k].child].valid
                    /\ \A a \in DOMAIN route.nodes :
                          route.nodes[a] # table[k].child } }

RECURSIVE RoutesFrom(_, _, _, _)
RoutesFrom(prov, target, frontier, steps) ==
    IF steps > MAX_DEPTH \/ frontier = {} THEN {}
    ELSE LET complete ==
                 {r \in frontier : r.nodes[Len(r.nodes)] = target}
         IN  complete \cup
             RoutesFrom(prov, target,
                        UNION {RouteExtensions(prov, r) :
                                  r \in frontier \ complete},
                        steps + 1)

Routes(prov, parent, target) ==
    RoutesFrom(prov, target, {Path(<<parent>>, <<>>, <<>>, One)}, 0)

\* C5: for a parent other than the target the enumerator returns exactly
\* the routes from the parent to the target, each once.
C5_ExactlyTheRoutes ==
    (enum_args # <<>> /\ enum_args[1] # enum_args[2]) =>
        /\ ReturnedPaths = Routes(provider, enum_args[1], enum_args[2])
        /\ \A i, j \in DOMAIN chain_paths :
              i # j => chain_paths[i] # chain_paths[j]

\* The enumerator returned four routes, two of them over the same nuclides
\* by different decay modes.
C5_Witness ==
    /\ enum_args # <<>>
    /\ enum_args[1] # enum_args[2]
    /\ Len(chain_paths) = 4
    /\ \E i, j \in DOMAIN chain_paths :
          /\ chain_paths[i].nodes = chain_paths[j].nodes
          /\ chain_paths[i].decay_modes # chain_paths[j].decay_modes

RECURSIVE Product(_)
Product(fractions) ==
    IF fractions = <<>> THEN One
    ELSE RMul(Product(SubSeq(fractions, 1, Len(fractions) - 1)),
              fractions[Len(fractions)])

\* The annotated paths of every cached branching info.
AnnotatedPaths ==
    UNION { {branching_cache[k].paths[i] :
                i \in DOMAIN branching_cache[k].paths} :
            k \in DOMAIN branching_cache }

ShapeAndRatio(p) ==
    /\ Len(p.decay_modes) = Len(p.nodes) - 1
    /\ Len(p.step_branching_fractions) = Len(p.nodes) - 1
    /\ p.chain_branching_ratio = Product(p.step_branching_fractions)

\* C6: in every path the enumerator returns and in every annotated path of
\* a branching info the chain ratio is the product of the step fractions,
\* and there is one decay mode and one step fraction per step.
C6_ChainRatioIsProduct ==
    /\ \A p \in ReturnedPaths : ShapeAndRatio(p)
    /\ \A p \in AnnotatedPaths : ShapeAndRatio(p)

\* A returned path of three steps none of which has the fraction 1, which
\* is also an annotated path of a cached branching info.
C6_Witness ==
    \E p \in ReturnedPaths :
        /\ Len(p.nodes) = 4
        /\ \A i \in DOMAIN p.step_branching_fractions :
              p.step_branching_fractions[i] # One
        /\ \E q \in AnnotatedPaths :
              q.nodes = p.nodes /\ q.decay_modes = p.decay_modes

RECURSIVE SumOfContributions(_)
SumOfContributions(paths) ==
    IF paths = <<>> THEN Zero
    ELSE RAdd(Head(paths).path_branching_ratio,
              SumOfContributions(Tail(paths)))

\* C7: in every branching info the contributions of the annotated paths
\* add up to the total branching ratio.
C7_ContributionsAddUp ==
    /\ \A k \in DOMAIN branching_cache :
          SumOfContributions(branching_cache[k].paths) =
              branching_cache[k].branching_ratio
    /\ \A j \in Processed :
          LET record == results[parent_nuclides[j]]
          IN  (include_paths /\ ~HasError(record)) =>
                  SumOfContributions(record.paths) = record.branching_ratio

\* A branching info of more than one path under a decay-type filter whose
\* fraction at the measured nuclide is neither 0 nor 1.
C7_Witness ==
    \E k \in DOMAIN branching_cache :
        /\ Len(branching_cache[k].paths) > 1
        /\ branching_cache[k].decay_type_fraction_at_measured # One
        /\ include_paths
        /\ pc = "done"

\* C8: for a parent that is the (unstable) measured nuclide the enumerator
\* returns the one trivial path, the branching ratio is 1 whatever the
\* decay type, and the activity is the measured activity.
C8_SelfPath ==
    /\ (enum_args # <<>> /\ enum_args[1] = enum_args[2]) =>
          chain_paths = << Path(<<enum_args[1]>>, <<>>, <<>>, One) >>
    /\ \A j \in Processed :
          (parent_nuclides[j] = measured_nuclide /\ ~MeasuredIsStable) =>
              LET record == results[measured_nuclide]
              IN  /\ ~HasError(record)
                  /\ record.branching_ratio = One
                  /\ record.activity_Bq = measured_activity

\* The measured nuclide as its own parent under a decay-type filter that
\* none of its decay modes matches.
C8_Witness ==
    /\ pc = "done"
    /\ decay_type # None
    /\ MatchingFraction(provider[measured_nuclide].table, decay_type, 1) = Zero
    /\ ~MeasuredIsStable
    /\ measured_nuclide \in DOMAIN results
    /\ enum_args = <<measured_nuclide, measured_nuclide>>
    /\ measured_activity # Zero

\* C9: activity times branching ratio is the measured activity for every
\* parent with a positive branching ratio.
C9_ActivityTimesRatio ==
    \A j \in Processed :
        LET record == results[parent_nuclides[j]]
        IN  RLess(Zero, record.branching_ratio) =>
                RMul(record.activity_Bq, record.branching_ratio) =
                    measured_activity

\* A parent with a branching ratio other than 1 and a nonzero activity.
C9_Witness ==
    \E j \in Processed :
        LET record == results[parent_nuclides[j]]
        IN  /\ RLess(Zero, record.branching_ratio)
            /\ record.branching_ratio # One
            /\ record.activity_Bq # Zero

\* The records that report a relative uncertainty of a nonzero activity.
WithRelativeUncertainty ==
    { j \in Processed :
        LET record == results[parent_nuclides[j]]
        IN  /\ "relative_uncertainty" \in DOMAIN record
            /\ record.activity_Bq # Zero }

\* C10, as claimed: the reported relative uncertainty is
\* measured_uncertainty / measured_activity.
C10_RelativeUncertaintyOfMeasured ==
    \A j \in WithRelativeUncertainty :
        results[parent_nuclides[j]].relative_uncertainty =
            RDiv(measured_activity_uncertainty, measured_activity)

\* C10, amended: the reported relative uncertainty is
\* measured_uncertainty / |measured_activity|, and the quotient of the
\* reported activity uncertainty and activity is
\* measured_uncertainty / measured_activity.
C10_RelativeUncertaintyOfAbsMeasured ==
    \A j \in WithRelativeUncertainty :
        LET record == results[parent_nuclides[j]]
        IN  /\ record.relative_uncertainty =
                  RDiv(measured_activity_uncertainty,
                       RAbs(measured_activity))
            /\ RDiv(record.activity_uncertainty_Bq, record.activity_Bq) =
                  RDiv(measured_activity_uncertainty, measured_activity)

\* A negative measured activity with an uncertainty and a branching ratio
\* other than 1.
C10_Witness ==
    \E j \in WithRelativeUncertainty :
        /\ RLess(measured_activity, Zero)
        /\ results[parent_nuclides[j]].branching_ratio # One
        /\ results[parent_nuclides[j]].relative_uncertainty = Dec(5, -2)

\* The decay modes of a decay table whose label matches decay_type: the
\* label contains it.
MatchingModes(table, dtype) ==
    {i \in DOMAIN table : Contains(table[i].mode, dtype)}

\* The sum of the branching fractions of the entries in S.
RECURSIVE SumOfFractions(_, _)
SumOfFractions(table, S) ==
    IF S = {} THEN Zero
    ELSE LET i == CHOOSE k \in S : \A m \in S : k <= m
         IN  RAdd(table[i].fraction, SumOfFractions(table, S \ {i}))

\* What _get_branching_info does for the pair when no decay type is set.
Unfiltered(parent, progeny) ==
    GetBranchingInfo(provider, EmptyDict, EmptyDict, None, parent, progeny)

\* The branching infos with a parent other than the target.
ProperKeys == {k \in DOMAIN branching_cache : k[1] # k[2]}

\* C11: for a parent other than the target, under a decay-type filter the
\* total branching ratio is the unfiltered total times the decay-type
\* fraction, which is the sum of the measured nuclide's own branching
\* fractions over its decay modes whose label matches the decay type, and
\* every path of the query carries that same fraction; without a filter
\* the fraction is 1.
C11_FilteredTotalIsUnfilteredTimesFraction ==
    \A k \in ProperKeys :
        LET info == branching_cache[k]
            table == provider[k[2]].table
            fraction == IF k[3] = None THEN One
                        ELSE SumOfFractions(table, MatchingModes(table, k[3]))
        IN  /\ info.decay_type_fraction_at_measured = fraction
            /\ \A i \in DOMAIN info.paths :
                  /\ info.paths[i].decay_type_fraction_at_measured = fraction
                  /\ info.paths[i].path_branching_ratio =
                        RMul(info.paths[i].chain_branching_ratio, fraction)
            /\ ~Unfiltered(k[1], k[2]).raised
            /\ info.branching_ratio =
                  RMul(Unfiltered(k[1], k[2]).info.branching_ratio, fraction)

\* A branching info of several paths under a decay-type filter whose
\* fraction is neither 0 nor 1 and comes from a decay mode whose label
\* contains the decay type without being it.
C11_Witness ==
    \E k \in ProperKeys :
        LET table == provider[k[2]].table
        IN  /\ k[3] # None
            /\ Len(branching_cache[k].paths) > 1
            /\ branching_cache[k].decay_type_fraction_at_measured
                   \notin {Zero, One}
            /\ \E i \in MatchingModes(table, k[3]) : table[i].mode # k[3]
            /\ branching_cache[k].branching_ratio #
                   Unfiltered(k[1], k[2]).info.branching_ratio

\* The shorthands and the canonical symbol each stands for.
Shorthands ==
    { << <<"a">>, ALPHA >>, << <<"a", "l", "p", "h", "a">>, ALPHA >>,
      << <<"b">>, BETA_MINUS >>, << <<"b", "-">>, BETA_MINUS >>,
      << <<"b", "e", "t", "a">>, BETA_MINUS >>,
      << <<"b", "e", "t", "a", "-">>, BETA_MINUS >>,
      << <<"b", "+">>, BETA_PLUS >>,
      << <<"b", "e", "t", "a", "+">>, BETA_PLUS >>,
      << <<"e">>, EC >>, << <<"e", "c">>, EC >> }

\* The upper-case form of a letter of the shorthands.
UpperOf(c) ==
    CASE c = "a" -> "A"
      [] c = "b" -> "B"
      [] c = "c" -> "C"
      [] c = "e" -> "E"
      [] c = "h" -> "H"
      [] c = "l" -> "L"
      [] c = "p" -> "P"
      [] c = "t" -> "T"
      [] OTHER -> c

\* s spells the shorthand, in whatever letter case.
IsSpelling(s, shorthand) ==
    /\ Len(s) = Len(shorthand)
    /\ \A i \in DOMAIN shorthand : s[i] \in {shorthand[i], UpperOf(shorthand[i])}

\* The canonical symbol of the shorthand that s spells, None if it spells
\* none.
SymbolSpelled(s) ==
    LET spelled == {p \in Shorthands : IsSpelling(s, p[1])}
    IN  IF spelled = {} THEN None ELSE (CHOOSE p \in spelled : TRUE)[2]

\* The canonical symbol the token is a shorthand of, whitespace around the
\* token aside; None if it is none.
CanonicalOf(token) == IF token = None THEN None ELSE SymbolSpelled(Strip(token))

\* The twin of the instance: the instance given the canonical symbol in
\* place of the shorthand, everything else the same.
TwinType == NormalizeDecayType(CanonicalOf(decay_type_arg))

TwinError ==
    ValidateNuclides(provider, measured_nuclide, parent_nuclides, TwinType,
                     measured_activity_uncertainty)

TwinRecord(parent) ==
    ParentRecord(provider, parent,
                 GetBranchingInfo(provider, EmptyDict, EmptyDict, TwinType,
                                  parent, measured_nuclide),
                 measured_activity, measured_activity_uncertainty,
                 include_paths)

\* C12: an instance given a shorthand and its twin given the canonical
\* symbol are accepted alike, and calculate() gives every parent the same
\* record: the same activity, mass and branching ratio.
C12_ShorthandAndSymbolAgree ==
    (pc # "new" /\ CanonicalOf(decay_type_arg) # None) =>
        /\ decay_type = TwinType
        /\ (pc = "rejected") = (TwinError # NoError)
        /\ pc # "crashed"
        /\ \A j \in Processed :
              LET record == results[parent_nuclides[j]]
                  twin == TwinRecord(parent_nuclides[j])
              IN  /\ record.activity_Bq = twin.activity_Bq
                  /\ record.mass_g = twin.mass_g
                  /\ record.branching_ratio = twin.branching_ratio
                  /\ record = twin
        /\ pc = "done" =>
              results = [parent \in {parent_nuclides[j] :
                                        j \in DOMAIN parent_nuclides} |->
                            TwinRecord(parent)]

\* calculate() has returned on an instance given the shorthand "a", with
\* a parent whose branching ratio the decay type changes.
C12_Witness ==
    /\ pc = "done"
    /\ decay_type_arg = <<"a">>
    /\ \E j \in Processed :
          LET record == results[parent_nuclides[j]]
          IN  /\ ~HasError(record)
              /\ record.branching_ratio #
                    Unfiltered(parent_nuclides[j],
                               measured_nuclide).info.branching_ratio

\* C13, as claimed: None gives None, a shorthand in whatever letter case
\* gives its canonical symbol, and every other non-empty token is
\* returned unchanged.
C13_OtherTokensUnchanged ==
    pc # "new" =>
        IF decay_type_arg = None THEN decay_type = None
        ELSE IF SymbolSpelled(decay_type_arg) # None
        THEN decay_type = SymbolSpelled(decay_type_arg)
        ELSE decay_type_arg # <<>> => decay_type = decay_type_arg

\* C13, amended: None gives None; any other token first loses the
\* whitespace around it; what is left gives its canonical symbol if it
\* spells a shorthand in whatever letter case, and is returned as it is
\* otherwise.
C13_StrippedThenMapped ==
    pc # "new" =>
        IF decay_type_arg = None THEN decay_type = None
        ELSE IF CanonicalOf(decay_type_arg) # None
        THEN decay_type = CanonicalOf(decay_type_arg)
        ELSE decay_type = Strip(decay_type_arg)

\* calculate() has returned on an instance given a shorthand in mixed case
\* with whitespace around it.
C13_Witness ==
    /\ pc = "done"
    /\ decay_type_arg = <<"\t", "B", "e", "t", "a", "+", "\n">>
    /\ decay_type = BETA_PLUS

\* The paths of a search that has returned.
SearchPaths ==
    [i \in DOMAIN dfs_calls |->
        Path(dfs_calls[i].nodes, dfs_calls[i].decay_modes,
             dfs_calls[i].step_branching_fractions,
             dfs_calls[i].chain_branching_ratio)]

\* C14: the path search, once begun, returns: on every network, networks
\* with cycles among them, and for every pair of parent and target.
C14_SearchTerminates == (dfs_pc = "running") ~> (dfs_pc = "done")

\* A search from A for D has returned on the network with cycles after
\* more calls of dfs than the network has nuclides.
C14_Witness ==
    /\ dfs_pc = "done"
    /\ provider = CycleNet
    /\ dfs_args = <<"A", "D">>
    /\ dfs_steps > 5
    /\ Len(dfs_calls) > 1

\* The key _get_branching_info uses for the parent calculate() deals with
\* next.
NextKey == CacheKey(parent_nuclides[idx], measured_nuclide, decay_type)

\* The next step of calculate() queries a triple that is in the cache.
QueryOfCachedTriple ==
    /\ pc = "calculating"
    /\ idx <= Len(parent_nuclides)
    /\ NextKey \in DOMAIN branching_cache

\* What the branching cache holds: under each triple the branching info a
\* first aggregation of the triple returns, and the triple of every parent
\* dealt with successfully.
CacheHoldsFirstAggregations ==
    /\ \A k \in DOMAIN branching_cache :
          LET first == GetBranchingInfo(provider, EmptyDict, EmptyDict, k[3],
                                        k[1], k[2])
          IN  ~first.raised /\ branching_cache[k] = first.info
    /\ \A j \in Processed :
          ~HasError(results[parent_nuclides[j]]) =>
              CacheKey(parent_nuclides[j], measured_nuclide, decay_type)
                  \in DOMAIN branching_cache

\* C15: the branching info of a triple stays in the cache unchanged; a
\* query of a cached triple enumerates no paths and gives the parent the
\* record made from the cached info; and every call of calculate() on the
\* instance returns the same results.
C15_BranchingInfoMemoized ==
    /\ [](/\ CacheHoldsFirstAggregations
          /\ \A a, b \in DOMAIN returned : returned[a] = returned[b])
    /\ [][/\ \A k \in DOMAIN branching_cache :
               /\ k \in DOMAIN branching_cache'
               /\ branching_cache'[k] = branching_cache[k]
          /\ QueryOfCachedTriple =>
               /\ enum_count' = enum_count
               /\ branching_cache' = branching_cache
               /\ results'[parent_nuclides[idx]] =
                     SuccessRecord(provider, parent_nuclides[idx],
                                   branching_cache[NextKey],
                                   measured_activity,
                                   measured_activity_uncertainty,
                                   include_paths)]_vars

\* calculate() has returned twice on an instance with two different
\* parents, both successful, after two enumerations in all.
C15_Witness ==
    /\ pc = "done"
    /\ Len(returned) = 2
    /\ Len(parent_nuclides) = 2
    /\ parent_nuclides[1] # parent_nuclides[2]
    /\ DOMAIN branching_cache =
          {CacheKey(parent_nuclides[j], measured_nuclide, decay_type) :
              j \in {1, 2}}
    /\ enum_count = 2

RECURSIVE SumOfChainRatios(_)
SumOfChainRatios(paths) ==
    IF paths = <<>> THEN Zero
    ELSE RAdd(Head(paths).chain_branching_ratio, SumOfChainRatios(Tail(paths)))

\* The paths from the parent to the measured nuclide.
PathsFrom(parent) == EnumerateChainPaths(provider, parent, measured_nuclide)

\* The decay-type fraction at the measured nuclide for the parent.
FractionAtMeasured(parent) ==
    IF decay_type = None \/ parent = measured_nuclide THEN One
    ELSE SumOfFractions(provider[measured_nuclide].table,
                        MatchingModes(provider[measured_nuclide].table,
                                      decay_type))

\* The total branching ratio of the parent.
TotalFor(parent) ==
    RMul(SumOfChainRatios(PathsFrom(parent)), FractionAtMeasured(parent))

\* Below 1e-15.
Negligible(ratio) == RLess(ratio, Dec(1, -15))

\* C16: a parent whose total branching ratio is below 1e-15, be it that
\* its paths are improbable or that the decay-type fraction at the
\* measured nuclide is 0, gets the failure record with the not-in-chain
\* error and no entry in the cache; no record without error has a branching
\* ratio below 1e-15.
C16_NegligibleTotalIsAnError ==
    \A j \in Processed :
        LET parent == parent_nuclides[j]
            record == results[parent]
        IN  /\ (~MeasuredIsStable /\ Negligible(TotalFor(parent))) =>
                  /\ record = FailureRecord(
                                  NotInChainError(measured_nuclide, parent),
                                  include_paths)
                  /\ CacheKey(parent, measured_nuclide, decay_type)
                        \notin DOMAIN branching_cache
            /\ ~HasError(record) =>
                  /\ ~Negligible(record.branching_ratio)
                  /\ record.branching_ratio = TotalFor(parent)

\* A parent with paths to the measured nuclide, none of whose decay modes
\* matches the decay type: a total of 0.
C16_Witness ==
    /\ pc = "done"
    /\ \E j \in Processed :
          LET parent == parent_nuclides[j]
          IN  /\ ~MeasuredIsStable
              /\ PathsFrom(parent) # <<>>
              /\ SumOfChainRatios(PathsFrom(parent)) = Dec(375, -3)
              /\ FractionAtMeasured(parent) = Zero
              /\ HasError(results[parent])

\* A parent whose paths add up to 1e-16, without a decay type.
SmallTotalReached ==
    \E j \in Processed :
        /\ ~MeasuredIsStable
        /\ decay_type = None
        /\ TotalFor(parent_nuclides[j]) = Dec(1, -16)

\* No entry of the list has a smaller contribution than the entry after it.
Descending(paths) ==
    \A i \in 1..(Len(paths) - 1) :
        ~RLess(paths[i].path_branching_ratio, paths[i + 1].path_branching_ratio)

\* C17: the annotated paths of every branching info, and so the paths of
\* every record that carries them, are in descending order of their
\* contribution, and they are the paths the enumerator returned, each
\* once.
C17_PathsInDescendingOrder ==
    /\ \A k \in DOMAIN branching_cache :
          LET paths == branching_cache[k].paths
              enumerated == EnumerateChainPaths(provider, k[1], k[2])
          IN  /\ Descending(paths)
              /\ Len(paths) = Len(enumerated)
              /\ {[field \in DOMAIN enumerated[1] |-> paths[i][field]] :
                      i \in DOMAIN paths}
                    = {enumerated[i] : i \in DOMAIN enumerated}
    /\ \A j \in Processed :
          LET record == results[parent_nuclides[j]]
          IN  "paths" \in DOMAIN record => Descending(record.paths)

\* The branching info of the paths enumerated last: four paths that the
\* enumerator returned in another order, two of them with the same
\* contribution.
C17_Witness ==
    /\ enum_args # <<>>
    /\ \E k \in DOMAIN branching_cache :
          LET paths == branching_cache[k].paths
          IN  /\ k[1] = enum_args[1]
              /\ Len(paths) = 4
              /\ [i \in DOMAIN paths |-> paths[i].nodes] #
                    [i \in DOMAIN chain_paths |-> chain_paths[i].nodes]
              /\ paths[3].path_branching_ratio = paths[4].path_branching_ratio
              /\ paths[1].path_branching_ratio # paths[2].path_branching_ratio

\* C18, as claimed: the record of a parent of infinite half-life reports
\* an infinite mass, and an infinite mass uncertainty when an uncertainty
\* was given.
C18_StableParentHasInfiniteMass ==
    \A j \in Processed :
        LET parent == parent_nuclides[j]
            record == results[parent]
        IN  IsInf(provider[parent].half_life) =>
                /\ record.mass_g = Inf
                /\ measured_activity_uncertainty # NoneFloat =>
                      /\ "mass_uncertainty_g" \in DOMAIN record
                      /\ record.mass_uncertainty_g = Inf

\* C18, amended: a failure record reports the mass 0 and no mass
\* uncertainty, whatever the half-life of the parent; a record without
\* error reports an infinite mass (and mass uncertainty, when an
\* uncertainty was given) for a parent of infinite half-life and otherwise
\* activity * atomic_mass * half_life, in units of
\* 1 / (Avogadro's number * ln 2) gram (and the activity uncertainty times
\* the same coefficient).
C18_MassOfSuccessfulParent ==
    \A j \in Processed :
        LET parent == parent_nuclides[j]
            record == results[parent]
            half_life == provider[parent].half_life
            atomic_mass == provider[parent].atomic_mass
            given == measured_activity_uncertainty # NoneFloat
        IN  IF HasError(record)
            THEN /\ record.mass_g = Zero
                 /\ "mass_uncertainty_g" \notin DOMAIN record
            ELSE /\ given <=> "mass_uncertainty_g" \in DOMAIN record
                 /\ IF IsInf(half_life)
                    THEN /\ record.mass_g = Inf
                         /\ given => record.mass_uncertainty_g = Inf
                    ELSE /\ record.mass_g =
                               RMul(RMul(record.activity_Bq, atomic_mass),
                                    half_life)
                         /\ given =>
                               record.mass_uncertainty_g =
                                   RMul(RMul(record.activity_uncertainty_Bq,
                                             atomic_mass), half_life)

\* calculate() has returned records without error for a parent of infinite
\* half-life and for one of finite half-life, an uncertainty given.
C18_Witness ==
    /\ pc = "done"
    /\ measured_activity_uncertainty = Dec(5, 0)
    /\ measured_activity # Zero
    /\ \E a, b \in Processed :
          LET stable == parent_nuclides[a]
              other == parent_nuclides[b]
          IN  /\ IsInf(provider[stable].half_life)
              /\ ~HasError(results[stable])
              /\ results[stable].mass_uncertainty_g = Inf
              /\ ~IsInf(provider[other].half_life)
              /\ ~HasError(results[other])
              /\ results[other].mass_g \notin {Zero, Inf}
              /\ results[stable].branching_ratio # One

(***************************************************************************)
(* Batch mode (BatchSpec).                                                 *)
(***************************************************************************)
\* The positions of input_rows the loop has dealt with.
RowsDone == IF batch_pc = "idle" THEN {} ELSE 1..(row_index - 1)

\* The output rows of the input row at position k, which is line k + 1 of
\* the CSV.
OutputOf(k) == SelectSeq(rows, LAMBDA r : r.input_row = k + 1)

\* The request of the input row at position k, made on its own.
RequestAlone(k) ==
    RowRequest(provider, input_rows[k], k + 1, explain_paths)

NumericFields ==
    {"activity_Bq", "mass_g", "branching_ratio", "halflife_yr",
     "atomic_mass", "activity_uncertainty_Bq", "mass_uncertainty_g",
     "relative_uncertainty"}

\* The output row carries an error text.
Reported(row) == row.error # NoText

BatchWithoutErrorReached ==
    /\ batch_pc = "done"
    /\ rows # <<>>
    /\ exit_code = 0

\* A finished batch whose only errors are those of ancestors.
AncestorErrorReached ==
    /\ batch_pc = "done"
    /\ exit_code = 1
    /\ \A i \in 1..Len(rows) : rows[i].parent # ""

(***************************************************************************)
(* The search and its target (SearchSpec).                                 *)
(***************************************************************************)
\* C20: the search never extends a branch beyond the target.  In every
\* call of dfs still to run and in every path appended, the first node is
\* the ancestor and the target is at no position before the last; in every
\* path appended the target is the last node; and the paths of a search
\* that has returned are the paths _enumerate_chain_paths returns.
C20_TargetEndsEveryPath ==
    dfs_pc \in {"running", "done"} =>
        /\ \A i \in DOMAIN dfs_calls :
             LET nodes == dfs_calls[i].nodes
             IN  /\ nodes # <<>>
                 /\ nodes[1] = dfs_args[1]
                 /\ nodes[Len(nodes)] = dfs_calls[i].current
                 /\ \A k \in 1..(Len(nodes) - 1) : nodes[k] # dfs_args[2]
                 /\ ~dfs_calls[i].pending => nodes[Len(nodes)] = dfs_args[2]
        /\ dfs_pc = "done" =>
               SearchPaths = EnumerateChainPaths(provider, dfs_args[1],
                                                 dfs_args[2])

\* A search from A for D has returned the four routes of DiamondNet; D has
\* decay modes of its own, which no path follows.
C20_Witness ==
    /\ dfs_pc = "done"
    /\ provider = DiamondNet
    /\ dfs_args = <<"A", "D">>
    /\ Len(dfs_calls) = 4
    /\ provider["D"].table # <<>>
    /\ \A i \in DOMAIN dfs_calls : Len(dfs_calls[i].nodes) >= 3

(***************************************************************************)
(* The depth bound (DepthSpec).                                            *)
(***************************************************************************)
\* Every route from the last nuclides of the routes in frontier on,
\* whatever its length: a route is extended as in RouteExtensions and is
\* complete at the target.
RECURSIVE RoutesOfAnyLength(_, _, _)
RoutesOfAnyLength(prov, target, frontier) ==
    IF frontier = {} THEN {}
    ELSE LET complete ==
                 {r \in frontier : r.nodes[Len(r.nodes)] = target}
         IN  complete \cup
             RoutesOfAnyLength(prov, target,
                               UNION {RouteExtensions(prov, r) :
                                         r \in frontier \ complete})

AllRoutes(parent, target) ==
    RoutesOfAnyLength(provider, target, {Path(<<parent>>, <<>>, <<>>, One)})

Steps(route) == Len(route.decay_modes)

\* C21: the depth bound is 30.  The paths the enumerator returns are the
\* routes of at most 30 decay steps, those of exactly 30 steps among them,
\* and no other; an ancestor whose routes to a measured nuclide that is
\* not stable all have more than 30 steps gets the failure record "is not
\* in decay chain".
C21_DepthBoundIsThirty ==
    /\ enum_args # <<>> =>
          /\ ReturnedPaths =
                 {r \in AllRoutes(enum_args[1], enum_args[2]) : Steps(r) <= 30}
          /\ \A i \in DOMAIN chain_paths : Steps(chain_paths[i]) <= 30
    /\ \A k \in Processed :
          LET parent == parent_nuclides[k]
              routes == AllRoutes(parent, measured_nuclide)
          IN  (/\ ~IsInf(provider[measured_nuclide].half_life)
               /\ \A r \in routes : Steps(r) > 30)
              => /\ HasError(results[parent])
                 /\ results[parent].error =
                        NotInChainError(measured_nuclide, parent)

\* calculate() has returned for N31 measured and the ancestors N0 and N1
\* of the plain chain: N31 is 31 steps from N0, which is reported as not
\* connected, and 30 steps from N1, whose route is returned.
C21_Witness ==
    /\ pc = "done"
    /\ provider = LongChain
    /\ measured_nuclide = "N31"
    /\ parent_nuclides = <<"N0", "N1">>
    /\ AllRoutes("N0", "N31") # {}
    /\ results["N0"].error = NotInChainError("N31", "N0")
    /\ ~HasError(results["N1"])
    /\ enum_args = <<"N1", "N31">>
    /\ Len(chain_paths) = 1
    /\ Steps(chain_paths[1]) = 30

\* On the chain with the shortcut, of the two routes from N0 to N31 only
\* the one of 30 steps is returned.
ShorterRouteOnlyReached ==
    /\ provider = ShortcutChain
    /\ enum_args = <<"N0", "N31">>
    /\ Len(chain_paths) = 1
    /\ Steps(chain_paths[1]) = 30
    /\ Cardinality(AllRoutes("N0", "N31")) = 2

(***************************************************************************)
(* Errors and branching ratios of the records (Spec).                      *)
(***************************************************************************)
\* Every record calculate() has stored so far or has returned.
Records ==
    {results[parent] : parent \in DOMAIN results}
    \cup UNION {{returned[c][parent] : parent \in DOMAIN returned[c]} :
                   c \in DOMAIN returned}

\* C22: a record has an 'error' entry if and only if its branching_ratio is
\* 0, a record without 'error' has a branching_ratio of at least 1e-15, and
\* calculate() never divides by a branching ratio of zero.
C22_ErrorIffZeroRatio ==
    /\ pc # "crashed"
    /\ \A record \in Records :
          /\ HasError(record) <=> record.branching_ratio = Zero
          /\ ~HasError(record) =>
                 ~RLess(record.branching_ratio, Dec(1, -15))

\* calculate() has returned a failure record with ratio 0 for an ancestor
\* whose total is 1e-16 and a success record for an ancestor whose total is
\* just above 1e-15, the measured activity divided by it.
C22_Witness ==
    /\ pc = "done"
    /\ provider = TinyNet
    /\ measured_nuclide = "D"
    /\ parent_nuclides = <<"A", "C">>
    /\ decay_type = None
    /\ measured_activity # Zero
    /\ HasError(results["A"])
    /\ results["A"].branching_ratio = Zero
    /\ ~HasError(results["C"])
    /\ RLess(results["C"].branching_ratio, Dec(2, -15))
    /\ results["C"].activity_Bq =
           RDiv(measured_activity, results["C"].branching_ratio)

\* A total of exactly zero: the decay type given has no decay mode at the
\* measured nuclide, and the ancestor gets a failure record.
ZeroTotalReached ==
    /\ pc = "done"
    /\ decay_type # None
    /\ \E k \in DOMAIN parent_nuclides :
          /\ PathsFrom(parent_nuclides[k]) # <<>>
          /\ TotalFor(parent_nuclides[k]) = Zero
          /\ HasError(results[parent_nuclides[k]])

(***************************************************************************)
(* Branching fractions and the total ratio (FractionSpec).                 *)
(***************************************************************************)
\* a <= b
AtMost(a, b) == ~RLess(b, a)

\* Every nuclide's branching fractions lie in [0, 1] and sum to at most 1.
FractionsProper(prov) ==
    \A id \in DOMAIN prov :
        prov[id].valid =>
            /\ \A i \in DOMAIN prov[id].table :
                  /\ AtMost(Zero, prov[id].table[i].fraction)
                  /\ AtMost(prov[id].table[i].fraction, One)
            /\ AtMost(SumOfFractions(prov[id].table, DOMAIN prov[id].table),
                      One)

TotalOfOneReached ==
    /\ pc = "done"
    /\ FractionsProper(provider)
    /\ parent_nuclides = <<"A">>
    /\ Len(chain_paths) = 2
    /\ results["A"].branching_ratio = One

\* Without the premise the bound fails: on a network whose fractions sum
\* to more than 1 an ancestor has a total above 1.
TotalAboveOneReached ==
    /\ pc = "done"
    /\ ~FractionsProper(provider)
    /\ \E record \in Records :
          ~HasError(record) /\ RLess(One, record.branching_ratio)

(***************************************************************************)
(* Stable ancestors (Spec).                                                *)
(***************************************************************************)
\* The provider gives every nuclide of infinite half-life an empty decay
\* table.
StableHaveNoModes(prov) ==
    \A id \in DOMAIN prov :
        (prov[id].valid /\ IsInf(prov[id].half_life)) => prov[id].table = <<>>

\* C24: on a provider that gives every stable nuclide an empty decay
\* table, an ancestor of infinite half-life always gets a failure record:
\* the error that the measured nuclide is stable when the ancestor is the
\* measured nuclide, and otherwise there is no route from it; and no
\* record has a mass_g or a mass_uncertainty_g of +infinity.
C24_StableAncestorAlwaysFails ==
    StableHaveNoModes(provider) =>
        /\ \A k \in Processed :
              LET parent == parent_nuclides[k]
              IN  IsInf(provider[parent].half_life) =>
                      /\ HasError(results[parent])
                      /\ parent = measured_nuclide =>
                             results[parent].error =
                                 StableError(measured_nuclide)
                      /\ parent # measured_nuclide =>
                             Routes(provider, parent, measured_nuclide) = {}
        /\ \A record \in Records :
              /\ record.mass_g # Inf
              /\ "mass_uncertainty_g" \in DOMAIN record =>
                     record.mass_uncertainty_g # Inf

\* calculate() has returned for the ancestors E, stable and without decay
\* modes, and A: E has the failure record with mass 0, A a success record
\* with a finite mass.
C24_Witness ==
    /\ pc = "done"
    /\ StableHaveNoModes(provider)
    /\ measured_nuclide = "D"
    /\ parent_nuclides = <<"E", "A">>
    /\ IsInf(provider["E"].half_life)
    /\ HasError(results["E"])
    /\ results["E"].mass_g = Zero
    /\ ~HasError(results["A"])
    /\ ~IsInf(results["A"].mass_g)

\* The stable ancestor is the measured nuclide itself.
StableSelfReached ==
    /\ pc = "done"
    /\ StableHaveNoModes(provider)
    /\ measured_nuclide = "E"
    /\ parent_nuclides = <<"E">>
    /\ results["E"].error = StableError("E")

\* Without the premise a mass of +infinity appears: a stable nuclide with
\* decay modes that lead to the measured nuclide.
InfiniteMassReached ==
    /\ pc = "done"
    /\ ~StableHaveNoModes(provider)
    /\ \E record \in Records : record.mass_g = Inf

=============================================================================
